---- MODULE Spec2Model ----
(***************************************************************************)
(* Rate-limited messaging dispatch of the WhatsApp gateway backend:        *)
(* WhatsAppManager.getUserSettings, checkAndUpdateUsage, sendMessage and   *)
(* sendBroadcast over the daily_usage and user_settings tables and the     *)
(* in-memory client map.                                                   *)
(*                                                                         *)
(* Every store statement (pool.query) and every transport call is one      *)
(* atomic step; the synchronous code between two awaits belongs to the     *)
(* step of the await it follows.  A store statement inside a try block may *)
(* fail, and the failure takes the catch branch the code gives it.  Store  *)
(* statements outside any try block (the devices lookup, the usage read of *)
(* sendBroadcast) are taken to succeed.  One calendar date is modelled.    *)
(* sendMessage's contact lookup and placeholder substitution (lines        *)
(* 756-784) change no state and are left out.                              *)
(***************************************************************************)
EXTENDS Integers, Sequences, FiniteSets, TLC

\* ---------------------------------------------------------------- bounds
MaxLimit == 2        \* daily_message_limit of a configured user is 1..MaxLimit
MaxCap == 2          \* max_broadcast_recipients of a configured user is 1..MaxCap
MaxRecipients == 2   \* recipients.length of a broadcast is 1..MaxRecipients
MaxRaceRecipients == 2   \* the same, of broadcasts that run concurrently with another call
UserBroadcastDelay == 2  \* broadcast_delay_seconds of a configured user
MaxTurns == 56       \* conversation rows inserted for one chat in a long conversation

\* ------------------------------------------------------ program constants
DefaultDailyLimit == 200
DefaultMessageDelay == 3
DefaultBroadcastDelay == 5
DefaultAutoReplyDelay == 2
DefaultMaxRecipients == 100
CacheTtl == 300000   \* a cached settings entry is served for 5 minutes (ms)
KeepTurns == 50      \* ai_conversations rows kept per chat (OFFSET 50)

Users == {"u1", "u2"}
Devices == {1, 2, 3}
Procs == {"p1", "p2"}
MessageTypes == {"message", "broadcast", "auto_reply"}

\* the options a caller can pass to sendMessage: options.messageType || 'message';
\* skipRateLimit is set by sendBroadcast alone (line 855)
SendOptions == [skipRateLimit : {FALSE}, messageType : MessageTypes]

\* the devices whose session comes and goes; the others stay connected
Flaky == {1}

\* devices.user_id: devices 1 and 2 belong to u1, device 3 to u2
DeviceOwner(d) == IF d = 3 THEN "u2" ELSE "u1"

\* the object getUserSettings returns when the store fails
DefaultSettings ==
  [daily_message_limit |-> DefaultDailyLimit,
   message_delay_seconds |-> DefaultMessageDelay,
   broadcast_delay_seconds |-> DefaultBroadcastDelay,
   auto_reply_delay_seconds |-> DefaultAutoReplyDelay,
   max_broadcast_recipients |-> DefaultMaxRecipients,
   enable_rate_limiting |-> TRUE]

\* user_settings rows a user can have configured
SettingsRows(u) ==
  IF u = "u1"
  THEN [daily_message_limit : 1..MaxLimit,
        message_delay_seconds : {DefaultMessageDelay},
        broadcast_delay_seconds : {UserBroadcastDelay},
        auto_reply_delay_seconds : {DefaultAutoReplyDelay},
        max_broadcast_recipients : 1..MaxCap,
        enable_rate_limiting : BOOLEAN]
  ELSE {}

VARIABLES
  daily_usage,     \* daily_usage rows of today, one per device (user_id = DeviceOwner)
  user_settings,   \* user_settings table: the rows of each user (at most one)
  userSettings,    \* WhatsAppManager.userSettings: { settings, timestamp } of each user
  clients,         \* WhatsAppManager.clients: "absent", "starting" (no info), "ready"
  call,            \* the frame of the call each request handler is in
  started,         \* the request handlers that have taken their request
  before,          \* history: daily_usage when the current serial call started
  scheduled_messages,  \* scheduled_messages table: the row of each message id
  batch,           \* the processScheduledMessages run of each cron tick
  lastCancel,      \* history: the latest cancel request and what it returned
  auto_replies,    \* auto_replies table: the rules of the device, in heap order
  ai_settings,     \* ai_settings table: the rows of the device (at most one)
  ai_conversations,    \* ai_conversations table: the rows of each chat, oldest first
  inbound,         \* the handleIncomingMessage run of each handler
  now              \* Date.now() / NOW(), in milliseconds

schedVars == <<scheduled_messages, batch, lastCancel>>
replyVars == <<auto_replies, ai_settings, ai_conversations, inbound>>

vars == <<daily_usage, user_settings, userSettings, clients, call, started, before,
          schedVars, replyVars, now>>

ZeroRow == [exists |-> FALSE, messages_sent |-> 0, broadcasts_sent |-> 0,
            auto_replies_sent |-> 0]

IdleFrame ==
  [op |-> "idle", pc |-> "idle", deviceId |-> 1, skipRateLimit |-> FALSE,
   messageType |-> "message", n |-> 0, i |-> 0, settings |-> DefaultSettings,
   total |-> 0, allowed |-> FALSE, remaining |-> 0, error |-> "none",
   results |-> <<>>, sends |-> 0, delays |-> 0, slept |-> 0,
   storeFailed |-> FALSE, clientAtStart |-> "absent"]

\* ------------------------------------------------------------- the store
\* SELECT COALESCE(SUM(messages_sent),0), COALESCE(SUM(broadcasts_sent),0)
\* FROM daily_usage WHERE user_id = u AND date = today
RECURSIVE SumOver(_, _, _)
SumOver(rows, ds, field) ==
  IF ds = {} THEN 0
  ELSE LET d == CHOOSE x \in ds : TRUE
       IN (IF rows[d].exists THEN rows[d][field] ELSE 0)
          + SumOver(rows, ds \ {d}, field)

UserDevices(u) == {d \in Devices : DeviceOwner(d) = u}

TotalMessages(rows, u) == SumOver(rows, UserDevices(u), "messages_sent")
TotalBroadcasts(rows, u) == SumOver(rows, UserDevices(u), "broadcasts_sent")

\* a total that counts the auto replies as well
TotalSentWithAutoReplies(rows, u) ==
  TotalMessages(rows, u) + TotalBroadcasts(rows, u)
    + SumOver(rows, UserDevices(u), "auto_replies_sent")

\* totalSent = parseInt(usage.total_messages) + parseInt(usage.total_broadcasts)
TotalSent(rows, u) == TotalMessages(rows, u) + TotalBroadcasts(rows, u)

\* INSERT INTO daily_usage (user_id, device_id, date) ... ON CONFLICT DO NOTHING
InsertUsageRow(rows, d) ==
  IF rows[d].exists THEN rows
  ELSE [rows EXCEPT ![d] = [ZeroRow EXCEPT !.exists = TRUE]]

\* updateField = type === 'broadcast' ? 'broadcasts_sent'
\*             : type === 'auto_reply' ? 'auto_replies_sent' : 'messages_sent'
UpdateField(type) ==
  IF type = "broadcast" THEN "broadcasts_sent"
  ELSE IF type = "auto_reply" THEN "auto_replies_sent" ELSE "messages_sent"

\* UPDATE daily_usage SET f = f + 1 WHERE user_id, device_id, date
UpdateUsage(rows, d, field) ==
  IF rows[d].exists THEN [rows EXCEPT ![d][field] = @ + 1] ELSE rows

\* INSERT ... VALUES (.., 1) ON CONFLICT DO UPDATE SET broadcasts_sent = broadcasts_sent + 1
UpsertBroadcast(rows, d) ==
  IF rows[d].exists THEN [rows EXCEPT ![d].broadcasts_sent = @ + 1]
  ELSE [rows EXCEPT ![d] = [ZeroRow EXCEPT !.exists = TRUE, !.broadcasts_sent = 1]]

\* --------------------------------------------------------- the client map
\* getClient(deviceId): this.clients.get(deviceId)
HasClient(d) == clients[d] # "absent"

\* a test that takes any entry of the map for a connected device
IsConnectedAnyClient(d) == clients[d] # "absent"

\* isConnected(deviceId): client && client.info
IsConnected(d) == clients[d] = "ready"

\* -------------------------------------------------------- getUserSettings
\* column defaults of a user_settings row created by INSERT (user_id) VALUES ($1)
DefaultRow ==
  [daily_message_limit |-> DefaultDailyLimit,
   message_delay_seconds |-> DefaultMessageDelay,
   broadcast_delay_seconds |-> DefaultBroadcastDelay,
   auto_reply_delay_seconds |-> DefaultAutoReplyDelay,
   max_broadcast_recipients |-> DefaultMaxRecipients,
   enable_rate_limiting |-> TRUE]

\* a cache test that serves an entry of any age
FreshForever(u) == userSettings[u] # {}

\* line 23: cached && Date.now() - cached.timestamp < 300000
Fresh(u) == \E c \in userSettings[u] : now - c.timestamp < CacheTtl

\* getUserSettings(u) returning s; failed = the store raised.  A fresh cache
\* entry is served; else the row is read, or created with the column defaults,
\* and cached with the time of the load; a store error returns the built-in
\* defaults and leaves the cache as it is.
GetUserSettings(u, s, failed) ==
  \/ /\ Fresh(u)
     /\ \E c \in userSettings[u] : s = c.settings
     /\ failed = FALSE
     /\ UNCHANGED <<user_settings, userSettings>>
  \/ /\ ~Fresh(u)
     /\ failed = FALSE
     /\ IF user_settings[u] = {} THEN s = DefaultRow ELSE s \in user_settings[u]
     /\ user_settings' = [user_settings EXCEPT ![u] = {s}]
     /\ userSettings' = [userSettings EXCEPT ![u] = {[settings |-> s, timestamp |-> now]}]
  \/ /\ ~Fresh(u)
     /\ failed = TRUE
     /\ s = DefaultSettings
     /\ UNCHANGED <<user_settings, userSettings>>

\* --------------------------------------------------------------- frames
Set(p, f) == call' = [call EXCEPT ![p] = f]

Others(p) == Procs \ {p}

\* Each handler serves one request.  serial = TRUE: the call starts only when
\* no other call is in progress.  Handlers are interchangeable: p1 is the
\* first to start.
CanStart(p, serial) ==
  /\ p \notin started
  /\ serial => \A q \in Others(p) : call[q].op = "idle"
  /\ p = "p2" => "p1" \in started

\* ---------------------------------------------------- checkAndUpdateUsage
\* a limit test that lets one message more through
LimitReachedStrict(s, total) ==
  s.enable_rate_limiting /\ total > s.daily_message_limit

\* if (settings.enable_rate_limiting) { if (totalSent >= daily_message_limit) throw }
LimitReached(s, total) ==
  s.enable_rate_limiting /\ total >= s.daily_message_limit

\* `const totalSent` is declared inside the block of `if (settings.enable_rate_limiting)`
\* (line 87) and read by the return statement outside it (line 105): the read
\* raises ReferenceError, which the catch of line 108 turns into remaining = -1.
TotalSentInScope == FALSE

\* return { allowed: true, remaining: daily_message_limit - totalSent - 1, settings }
ReturnRemaining(s, total) ==
  IF TotalSentInScope THEN s.daily_message_limit - total - 1 ELSE -1

\* the callers of checkAndUpdateUsage: sendMessage (line 750) and
\* checkAIAutoReply (line 540)
UsageCallers == {"sendMessage", "checkAndUpdateUsage"}

\* where the caller goes on when checkAndUpdateUsage has returned
AfterUsage(f) == IF f.op = "sendMessage" THEN "sm_send" ELSE "done"

\* line 65: get or create today's row
CauInsert(p) ==
  LET f == call[p] IN
  /\ f.op \in UsageCallers /\ f.pc = "cau_insert"
  /\ \/ /\ daily_usage' = InsertUsageRow(daily_usage, f.deviceId)
        /\ Set(p, [f EXCEPT !.pc = "cau_select"])
     \/ /\ UNCHANGED daily_usage
        /\ Set(p, [f EXCEPT !.pc = "cau_catch", !.storeFailed = TRUE])
  /\ UNCHANGED <<user_settings, userSettings, clients, started, before>>
  /\ UNCHANGED <<schedVars, replyVars>>
  /\ UNCHANGED now

\* line 73: read the user's aggregate usage of today
CauSelect(p) ==
  LET f == call[p] IN
  /\ f.op \in UsageCallers /\ f.pc = "cau_select"
  /\ \/ Set(p, [f EXCEPT !.pc = "cau_settings",
                         !.total = TotalSent(daily_usage, DeviceOwner(f.deviceId))])
     \/ Set(p, [f EXCEPT !.pc = "cau_catch", !.storeFailed = TRUE])
  /\ UNCHANGED <<daily_usage, user_settings, userSettings, clients, started, before>>
  /\ UNCHANGED <<schedVars, replyVars>>
  /\ UNCHANGED now

\* lines 83-91: load the settings, throw when the limit is reached
CauSettings(p) ==
  LET f == call[p] IN
  /\ f.op \in UsageCallers /\ f.pc = "cau_settings"
  /\ \E s \in {DefaultSettings, DefaultRow} \cup SettingsRows(DeviceOwner(f.deviceId)),
        failed \in BOOLEAN :
       /\ GetUserSettings(DeviceOwner(f.deviceId), s, failed)
       /\ IF LimitReached(s, f.total)
          THEN Set(p, [f EXCEPT !.pc = "done", !.settings = s, !.error = "DailyLimit",
                                !.storeFailed = f.storeFailed \/ failed])
          ELSE Set(p, [f EXCEPT !.pc = "cau_update", !.settings = s,
                                !.storeFailed = f.storeFailed \/ failed])
  /\ UNCHANGED <<daily_usage, clients, started, before>>
  /\ UNCHANGED <<schedVars, replyVars>>
  /\ UNCHANGED now

\* lines 93-107: increment the counter of the kind, then build the return value
CauUpdate(p) ==
  LET f == call[p] IN
  /\ f.op \in UsageCallers /\ f.pc = "cau_update"
  /\ \/ /\ daily_usage' = UpdateUsage(daily_usage, f.deviceId, UpdateField(f.messageType))
        /\ IF TotalSentInScope
           THEN Set(p, [f EXCEPT !.pc = AfterUsage(f), !.allowed = TRUE,
                                 !.remaining = ReturnRemaining(f.settings, f.total)])
           ELSE Set(p, [f EXCEPT !.pc = "cau_catch"])
     \/ /\ UNCHANGED daily_usage
        /\ Set(p, [f EXCEPT !.pc = "cau_catch", !.storeFailed = TRUE])
  /\ UNCHANGED <<user_settings, userSettings, clients, started, before>>
  /\ UNCHANGED <<schedVars, replyVars>>
  /\ UNCHANGED now

\* lines 108-115: any error but the daily-limit one: allow, remaining = -1
CauCatch(p) ==
  LET f == call[p] IN
  /\ f.op \in UsageCallers /\ f.pc = "cau_catch"
  /\ \E s \in {DefaultSettings, DefaultRow} \cup SettingsRows(DeviceOwner(f.deviceId)),
        failed \in BOOLEAN :
       /\ GetUserSettings(DeviceOwner(f.deviceId), s, failed)
       /\ Set(p, [f EXCEPT !.pc = AfterUsage(f), !.allowed = TRUE, !.remaining = -1,
                           !.settings = s, !.storeFailed = f.storeFailed \/ failed])
  /\ UNCHANGED <<daily_usage, clients, started, before>>
  /\ UNCHANGED <<schedVars, replyVars>>
  /\ UNCHANGED now

\* ------------------------------------------------------------ sendMessage
\* lines 733-754: no client -> 'Device not connected'; the quota check unless
\* options.skipRateLimit
EnterSendMessage(d, options) ==
  LET f == [IdleFrame EXCEPT !.op = "sendMessage", !.deviceId = d,
                             !.messageType = options.messageType,
                             !.skipRateLimit = options.skipRateLimit,
                             !.clientAtStart = clients[d]]
  IN IF ~HasClient(d)
     THEN [f EXCEPT !.pc = "done", !.error = "DeviceNotConnected"]
     ELSE IF options.skipRateLimit THEN [f EXCEPT !.pc = "sm_send"]
     ELSE [f EXCEPT !.pc = "cau_insert"]

StartSendMessage(p, d, options, serial) ==
  /\ CanStart(p, serial)
  /\ started' = started \cup {p}
  /\ before' = (IF serial THEN daily_usage ELSE before)
  /\ Set(p, EnterSendMessage(d, options))
  /\ UNCHANGED <<daily_usage, user_settings, userSettings, clients>>
  /\ UNCHANGED <<schedVars, replyVars>>
  /\ UNCHANGED now

\* lines 786-810: client.sendMessage resolves or rejects
SmSend(p) ==
  LET f == call[p] IN
  /\ f.op = "sendMessage" /\ f.pc = "sm_send"
  /\ \/ Set(p, [f EXCEPT !.pc = "done", !.sends = @ + 1, !.results = <<"ok">>])
     \/ Set(p, [f EXCEPT !.pc = "done", !.sends = @ + 1, !.error = "TransportError"])
  /\ UNCHANGED <<daily_usage, user_settings, userSettings, clients, started, before>>
  /\ UNCHANGED <<schedVars, replyVars>>
  /\ UNCHANGED now

\* the caller takes the result; the handler is free again
Return(p) ==
  /\ call[p].pc = "done"
  /\ Set(p, IdleFrame)
  /\ before' = (IF \A q \in Others(p) : call[q].op = "idle" THEN daily_usage ELSE before)
  /\ UNCHANGED <<daily_usage, user_settings, userSettings, clients, started>>
  /\ UNCHANGED <<schedVars, replyVars>>
  /\ UNCHANGED now

\* ---------------------------------------------------------- sendBroadcast
\* delayMs = (settings.broadcast_delay_seconds || 5) * 1000, in seconds
DelaySeconds(s) ==
  IF s.broadcast_delay_seconds = 0 THEN DefaultBroadcastDelay
  ELSE s.broadcast_delay_seconds

\* settings.enable_rate_limiting && recipients.length > settings.max_broadcast_recipients
TooManyRecipients(s, n) ==
  s.enable_rate_limiting /\ n > s.max_broadcast_recipients

\* a quota test that rejects a list as long as the remaining quota
NotEnoughQuotaOffByOne(s, n, total) ==
  s.enable_rate_limiting /\ n >= s.daily_message_limit - total

\* settings.enable_rate_limiting && recipients.length > remaining
NotEnoughQuota(s, n, total) ==
  s.enable_rate_limiting /\ n > s.daily_message_limit - total

Fails(k) == [j \in 1..k |-> "fail"]

\* the head of `for (let i = 0; i < recipients.length; i++)` and the start of
\* sendMessage: without a client every remaining recipient is rejected with
\* 'Device not connected' in the same turn (no await is reached, no delay)
LoopHead(f) ==
  IF f.i >= f.n THEN [f EXCEPT !.pc = "done"]
  ELSE IF ~HasClient(f.deviceId)
       THEN [f EXCEPT !.pc = "done", !.i = f.n,
                      !.results = f.results \o Fails(f.n - f.i)]
       ELSE [f EXCEPT !.pc = "sb_send"]

\* lines 813-823: look the owner up
StartSendBroadcast(p, d, n, serial) ==
  /\ CanStart(p, serial)
  /\ started' = started \cup {p}
  /\ before' = (IF serial THEN daily_usage ELSE before)
  /\ Set(p, [IdleFrame EXCEPT !.op = "sendBroadcast", !.pc = "sb_settings",
                              !.deviceId = d, !.n = n, !.skipRateLimit = TRUE,
                              !.messageType = "broadcast",
                              !.clientAtStart = clients[d]])
  /\ UNCHANGED <<daily_usage, user_settings, userSettings, clients>>
  /\ UNCHANGED <<schedVars, replyVars>>
  /\ UNCHANGED now

\* lines 825-830: load the settings, check the recipient cap
SbSettings(p) ==
  LET f == call[p] IN
  /\ f.op = "sendBroadcast" /\ f.pc = "sb_settings"
  /\ \E s \in {DefaultSettings, DefaultRow} \cup SettingsRows(DeviceOwner(f.deviceId)),
        failed \in BOOLEAN :
       /\ GetUserSettings(DeviceOwner(f.deviceId), s, failed)
       /\ IF TooManyRecipients(s, f.n)
          THEN Set(p, [f EXCEPT !.pc = "done", !.settings = s,
                                !.error = "TooManyRecipients", !.storeFailed = failed])
          ELSE Set(p, [f EXCEPT !.pc = "sb_usage", !.settings = s,
                                !.storeFailed = failed])
  /\ UNCHANGED <<daily_usage, clients, started, before>>
  /\ UNCHANGED <<schedVars, replyVars>>
  /\ UNCHANGED now

\* lines 832-845: read today's usage once, check the whole list against it
SbUsage(p) ==
  LET f == call[p]
      total == TotalSent(daily_usage, DeviceOwner(f.deviceId))
  IN
  /\ f.op = "sendBroadcast" /\ f.pc = "sb_usage"
  /\ IF NotEnoughQuota(f.settings, f.n, total)
     THEN Set(p, [f EXCEPT !.pc = "done", !.total = total,
                           !.remaining = f.settings.daily_message_limit - total,
                           !.error = "InsufficientQuota"])
     ELSE Set(p, LoopHead([f EXCEPT !.total = total,
                           !.remaining = f.settings.daily_message_limit - total]))
  /\ UNCHANGED <<daily_usage, user_settings, userSettings, clients, started, before>>
  /\ UNCHANGED <<schedVars, replyVars>>
  /\ UNCHANGED now

\* lines 852-858, 872-874: the send of recipient i resolves or rejects
SbSend(p) ==
  LET f == call[p] IN
  /\ f.op = "sendBroadcast" /\ f.pc = "sb_send"
  /\ \/ Set(p, [f EXCEPT !.pc = "sb_incr", !.sends = @ + 1,
                         !.results = Append(@, "ok")])
     \/ Set(p, LoopHead([f EXCEPT !.sends = @ + 1, !.i = @ + 1,
                                  !.results = Append(@, "fail")]))
  /\ UNCHANGED <<daily_usage, user_settings, userSettings, clients, started, before>>
  /\ UNCHANGED <<schedVars, replyVars>>
  /\ UNCHANGED now

\* lines 860-871: count the sent message; a store error lands in the catch of
\* line 872, which pushes a failure entry and skips the delay
SbIncr(p) ==
  LET f == call[p] IN
  /\ f.op = "sendBroadcast" /\ f.pc = "sb_incr"
  /\ \/ /\ daily_usage' = UpsertBroadcast(daily_usage, f.deviceId)
        /\ IF f.i < f.n - 1
           THEN Set(p, [f EXCEPT !.pc = "sb_delay"])
           ELSE Set(p, LoopHead([f EXCEPT !.i = @ + 1]))
     \/ /\ UNCHANGED daily_usage
        /\ Set(p, LoopHead([f EXCEPT !.i = @ + 1, !.storeFailed = TRUE,
                                     !.results = Append(@, "fail")]))
  /\ UNCHANGED <<user_settings, userSettings, clients, started, before>>
  /\ UNCHANGED <<schedVars, replyVars>>
  /\ UNCHANGED now

\* lines 868-871: setTimeout(resolve, delayMs) fires
SbDelay(p) ==
  LET f == call[p] IN
  /\ f.op = "sendBroadcast" /\ f.pc = "sb_delay"
  /\ Set(p, LoopHead([f EXCEPT !.i = @ + 1, !.delays = @ + 1,
                               !.slept = @ + DelaySeconds(f.settings)]))
  /\ UNCHANGED <<daily_usage, user_settings, userSettings, clients, started, before>>
  /\ UNCHANGED <<schedVars, replyVars>>
  /\ UNCHANGED now

\* ------------------------------------------------------- device lifecycle
\* initializeDevice line 183: this.clients.set(deviceId, client), before 'ready'
InitializeDevice(d) ==
  /\ clients[d] = "absent"
  /\ clients' = [clients EXCEPT ![d] = "starting"]
  /\ UNCHANGED <<daily_usage, user_settings, userSettings, call, started, before>>
  /\ UNCHANGED <<schedVars, replyVars>>
  /\ UNCHANGED now

\* the transport sets client.info and emits 'ready'
ClientReady(d) ==
  /\ clients[d] = "starting"
  /\ clients' = [clients EXCEPT ![d] = "ready"]
  /\ UNCHANGED <<daily_usage, user_settings, userSettings, call, started, before>>
  /\ UNCHANGED <<schedVars, replyVars>>
  /\ UNCHANGED now

\* this.clients.delete(deviceId): initialize failed, 'disconnected', disconnectDevice
ClientGone(d) ==
  /\ clients[d] # "absent"
  /\ clients' = [clients EXCEPT ![d] = "absent"]
  /\ UNCHANGED <<daily_usage, user_settings, userSettings, call, started, before>>
  /\ UNCHANGED <<schedVars, replyVars>>
  /\ UNCHANGED now

\* ------------------------------------------------------ SchedulerService
\* scheduled_messages rows: ids in ascending scheduled_at; message 1 is of
\* device 1, message 2 of device 2
MaxMessages == 13
MsgIds == 1..MaxMessages

\* the two messages of the runs with two ticks and with cancel requests
SchedMsgIds == {1, 2}

\* scheduled_at of each message, in milliseconds on the clock of `now`:
\* messages 1 and 2 are the oldest, the last message lies in the future, and
\* among the others a later id is scheduled earlier
ScheduledAt(m) ==
  CASE m = 1 -> -100
    [] m = 2 -> -99
    [] m = MaxMessages -> 1
    [] OTHER -> 0 - m
MsgDevice(m) == IF m = 1 THEN 1 ELSE 2

\* LIMIT 10 of the batch query
BatchLimit == 10

Terminal == {"sent", "failed", "cancelled"}

NoMessage == [status |-> "none", error_message |-> "none", handed |-> 0]

\* scheduleMessage: INSERT INTO scheduled_messages ... (status defaults to pending)
NewMessage == [NoMessage EXCEPT !.status = "pending"]

IdleBatch == [pc |-> "idle", rows |-> <<>>, k |-> 1]

NoCancel == [kind |-> "none", id |-> 1, devices |-> {}, before |-> "none",
             after |-> "none", returned |-> FALSE, raised |-> FALSE,
             othersSame |-> TRUE]

\* a WHERE clause without the test of scheduled_at
DueAnyTime(rows) ==
  {m \in MsgIds : rows[m].status = "pending"}

\* WHERE sm.status = 'pending' AND sm.scheduled_at <= NOW()
Due(rows) ==
  {m \in MsgIds : rows[m].status = "pending" /\ ScheduledAt(m) <= now}

\* ORDER BY sm.scheduled_at ASC
RECURSIVE Ascending(_)
Ascending(S) ==
  IF S = {} THEN <<>>
  ELSE LET m == CHOOSE x \in S : \A y \in S : ScheduledAt(x) <= ScheduledAt(y)
       IN <<m>> \o Ascending(S \ {m})

\* the batch query of lines 24-32, with LIMIT 10
DueRows(rows) ==
  LET all == Ascending(Due(rows))
  IN SubSeq(all, 1, IF Len(all) < BatchLimit THEN Len(all) ELSE BatchLimit)

\* the cron callback of start(): every tick calls processScheduledMessages,
\* whether or not the batch of an earlier tick has returned; the batch query
\* runs, or raises into the catch of line 73
Tick(p) ==
  /\ p \notin started /\ batch[p].pc = "idle"
  /\ p = "p2" => "p1" \in started
  /\ started' = started \cup {p}
  /\ \/ batch' = [batch EXCEPT ![p] = [pc |-> "head", k |-> 1,
                                       rows |-> DueRows(scheduled_messages)]]
     \/ batch' = [batch EXCEPT ![p] = [IdleBatch EXCEPT !.pc = "done"]]
  /\ UNCHANGED <<daily_usage, user_settings, userSettings, clients, call, before,
                 scheduled_messages, lastCancel, replyVars>>
  /\ UNCHANGED now

\* UPDATE scheduled_messages SET status = $1, error_message = $2 WHERE id = $3
\* (no row with the id: nothing is updated)
SetStatus(rows, m, status, msg) ==
  IF rows[m].status = "none" THEN rows
  ELSE [rows EXCEPT ![m].status = status, ![m].error_message = msg]

\* lines 34-56: the next row of the batch: device not connected -> UPDATE to
\* failed; else call sendMessage(device_id, to_number, body, {})
BatchHead(p) ==
  LET b == batch[p] IN
  /\ b.pc = "head"
  /\ IF b.k > Len(b.rows)
     THEN /\ batch' = [batch EXCEPT ![p].pc = "done"]
          /\ UNCHANGED <<scheduled_messages, call>>
     ELSE LET m == b.rows[b.k] IN
          IF ~IsConnected(MsgDevice(m))
          THEN /\ \/ /\ scheduled_messages' =
                          SetStatus(scheduled_messages, m, "failed", "DeviceNotConnected")
                     /\ batch' = [batch EXCEPT ![p].k = @ + 1]
                  \/ /\ UNCHANGED scheduled_messages
                     /\ batch' = [batch EXCEPT ![p].pc = "catch"]
               /\ UNCHANGED call
          ELSE /\ Set(p, EnterSendMessage(MsgDevice(m),
                            [skipRateLimit |-> FALSE, messageType |-> "message"]))
               /\ batch' = [batch EXCEPT ![p].pc = "sending"]
               /\ UNCHANGED scheduled_messages
  /\ UNCHANGED <<daily_usage, user_settings, userSettings, clients, started, before,
                 lastCancel, replyVars>>
  /\ UNCHANGED now

\* lines 51-71: sendMessage has returned: UPDATE to sent; it has raised: the
\* catch UPDATEs to failed with the error's message.  A failing UPDATE to sent
\* lands in the same catch; a failing UPDATE in the catch ends the batch.
BatchAfterSend(p) ==
  LET b == batch[p]
      m == b.rows[b.k]
      f == call[p]
      rows == [scheduled_messages EXCEPT ![m].handed = @ + f.sends]
  IN
  /\ b.pc = "sending" /\ f.op = "sendMessage" /\ f.pc = "done"
  /\ Set(p, IdleFrame)
  /\ IF f.error = "none"
     THEN \/ /\ scheduled_messages' = SetStatus(rows, m, "sent", "none")
             /\ batch' = [batch EXCEPT ![p].pc = "head", ![p].k = @ + 1]
          \/ /\ scheduled_messages' = rows
             /\ batch' = [batch EXCEPT ![p].pc = "catch"]
     ELSE \/ /\ scheduled_messages' = SetStatus(rows, m, "failed", f.error)
             /\ batch' = [batch EXCEPT ![p].pc = "head", ![p].k = @ + 1]
          \/ /\ scheduled_messages' = rows
             /\ batch' = [batch EXCEPT ![p].pc = "done"]
  /\ UNCHANGED <<daily_usage, user_settings, userSettings, clients, started, before,
                 lastCancel, replyVars>>
  /\ UNCHANGED now

\* lines 65-71 after a store error in the try block: UPDATE to failed; when
\* that raises too, the catch of line 73 ends the batch
BatchCatch(p) ==
  LET b == batch[p]
      m == b.rows[b.k]
  IN
  /\ b.pc = "catch"
  /\ \/ /\ scheduled_messages' = SetStatus(scheduled_messages, m, "failed", "StoreError")
        /\ batch' = [batch EXCEPT ![p].pc = "head", ![p].k = @ + 1]
     \/ /\ UNCHANGED scheduled_messages
        /\ batch' = [batch EXCEPT ![p].pc = "done"]
  /\ UNCHANGED <<daily_usage, user_settings, userSettings, clients, call, started,
                 before, lastCancel, replyVars>>
  /\ UNCHANGED now

\* scheduleMessage (lines 78-86): INSERT INTO scheduled_messages; status
\* defaults to pending
ScheduleMessage(m) ==
  /\ scheduled_messages[m].status = "none"
  /\ scheduled_messages' = [scheduled_messages EXCEPT ![m] = NewMessage]
  /\ UNCHANGED <<daily_usage, user_settings, userSettings, clients, call, started,
                 before, batch, lastCancel, replyVars>>
  /\ UNCHANGED now

\* a cancel that clears the pending test
CancellableAnyStatus(row, ds) ==
  row.status # "none" /\ MsgDevice(row.id) \in ds

\* WHERE id = $1 AND device_id = $2 AND status = 'pending'
Cancellable(row, ds) ==
  row.status = "pending" /\ MsgDevice(row.id) \in ds

\* UPDATE scheduled_messages SET status = 'cancelled' WHERE ... RETURNING *
CancelUpdate(kind, m, ds, raised) ==
  LET row == [id |-> m, status |-> scheduled_messages[m].status]
      hit == ~raised /\ Cancellable(row, ds)
  IN
  /\ scheduled_messages' =
       IF hit THEN [scheduled_messages EXCEPT ![m].status = "cancelled"]
       ELSE scheduled_messages
  /\ lastCancel' = [kind |-> kind, id |-> m, devices |-> ds,
                    before |-> scheduled_messages[m].status,
                    after |-> scheduled_messages'[m].status,
                    returned |-> hit, raised |-> raised,
                    othersSame |-> \A x \in MsgIds \ {m} :
                                     scheduled_messages'[x] = scheduled_messages[x]]
  /\ UNCHANGED <<daily_usage, user_settings, userSettings, clients, call, started,
                 before, batch, replyVars>>
  /\ UNCHANGED now

\* SchedulerService.cancelScheduledMessage(messageId, deviceId)
CancelScheduledMessage(m, d) == CancelUpdate("service", m, {d}, FALSE)

\* DELETE /scheduled/:messageId of user u: device_id IN (the user's devices);
\* a store error is answered with status 500
CancelRoute(m, u) ==
  \E raised \in BOOLEAN : CancelUpdate("route", m, UserDevices(u), raised)

\* ------------------------------------------------- handleIncomingMessage
\* Inbound messages of device ReplyDevice from the chat Sender.  Strings
\* that the code compares are sequences of characters; the texts it only
\* passes on are names.  The messages table (saveMessage) is not modelled.
ReplyDevice == 1
Chats == {"a", "b"}
Sender == "a"

\* msg.from: the chat id of the sender, <number>@c.us for a contact and
\* <id>@g.us for a group
ContactId(number) == number \o <<"@", "c", ".", "u", "s">>
GroupId(number) == number \o <<"@", "g", ".", "u", "s">>
SenderId == ContactId(<<"6", "2">>)

\* String.prototype.toLowerCase on the characters used here
LowerChar(c) ==
  CASE c = "H" -> "h" [] c = "I" -> "i" [] c = "T" -> "t" [] c = "O" -> "o" [] OTHER -> c

ToLowerCase(s) == [i \in DOMAIN s |-> LowerChar(s[i])]

\* String.prototype.includes / startsWith / endsWith
Includes(s, k) ==
  \E i \in 0..(Len(s) - Len(k)) : SubSeq(s, i + 1, i + Len(k)) = k

StartsWith(s, k) == Len(k) <= Len(s) /\ SubSeq(s, 1, Len(k)) = k

EndsWith(s, k) == Len(k) <= Len(s) /\ SubSeq(s, Len(s) - Len(k) + 1, Len(s)) = k

\* a test that takes no body for blank
NeverBlank(s) == FALSE

\* !msg.body || msg.body.trim() === ''
IsBlank(s) == \A i \in DOMAIN s : s[i] = " "

\* lines 400-415: shouldReply of one rule
ShouldReply(rule, body) ==
  LET b == ToLowerCase(body)
      k == ToLowerCase(rule.trigger_keyword)
  IN CASE rule.match_type = "exact" -> b = k
       [] rule.match_type = "contains" -> Includes(b, k)
       [] rule.match_type = "starts_with" -> StartsWith(b, k)
       [] rule.match_type = "ends_with" -> EndsWith(b, k)
       [] OTHER -> FALSE

\* auto_replies rows of the device; id is the SERIAL key, so a smaller id is
\* a rule created earlier
Rule(id, type, keyword, reply, active) ==
  [id |-> id, match_type |-> type, trigger_keyword |-> keyword,
   reply_message |-> reply, is_active |-> active]

RuleHi == Rule(1, "contains", <<"h", "i">>, "reply1", TRUE)
RuleHiT == Rule(2, "exact", <<"H", "i", " ", "t">>, "reply2", TRUE)
RuleStart == Rule(1, "starts_with", <<"y", "o">>, "reply1", TRUE)
RuleEnd == Rule(2, "ends_with", <<"O">>, "reply2", TRUE)

\* The auto_replies table as a sequential scan returns it.  Rows are stored
\* in creation order; PUT /:deviceId/:replyId and the toggle route
\* (routes/autoReplies.js lines 101, 146) UPDATE a row, which stores its new
\* version behind the rows that exist, so a rule that was edited or switched
\* off and on is scanned after rules created later.
RuleTables ==
  { <<RuleHi, RuleHiT>>,
    <<RuleHiT, RuleHi>>,
    <<[RuleHi EXCEPT !.is_active = FALSE], RuleHiT>>,
    <<RuleStart, RuleEnd>> }

\* msg.body of the inbound messages
Bodies ==
  { <<"H", "I", " ", "T">>, <<"h", "i">>, <<"y", "o">>, <<"n", "o">>, <<" ">>, <<>> }

InboundMessages ==
  [body : Bodies, fromMe : {FALSE}, from : {SenderId}]
    \cup [body : {<<"h", "i">>}, fromMe : {TRUE}, from : {SenderId}]

\* SELECT * FROM auto_replies WHERE device_id = $1 AND is_active = true
ActiveRules(table) == SelectSeq(table, LAMBDA r : r.is_active)

\* for (const rule of result.rows) ... if (shouldReply): the position of the
\* first row that matches, 0 when none does
FirstMatch(rows, body) ==
  IF \E i \in DOMAIN rows : ShouldReply(rows[i], body)
  THEN CHOOSE i \in DOMAIN rows :
         /\ ShouldReply(rows[i], body)
         /\ \A j \in 1..(i - 1) : ~ShouldReply(rows[j], body)
  ELSE 0

\* String.prototype.split(sep)[0]: the text before the first separator
RECURSIVE BeforeFirst(_, _)
BeforeFirst(s, sep) ==
  IF s = <<>> \/ Head(s) = sep THEN <<>>
  ELSE <<Head(s)>> \o BeforeFirst(Tail(s), sep)

\* String.prototype.split(sep): the pieces between the separators
RECURSIVE Split(_, _)
Split(s, sep) ==
  LET first == BeforeFirst(s, sep)
  IN IF Len(first) = Len(s) THEN <<first>>
     ELSE <<first>> \o Split(SubSeq(s, Len(first) + 2, Len(s)), sep)

\* String.prototype.trim
RECURSIVE Trim(_)
Trim(s) ==
  IF s = <<>> THEN s
  ELSE IF Head(s) = " " THEN Trim(Tail(s))
  ELSE IF s[Len(s)] = " " THEN Trim(SubSeq(s, 1, Len(s) - 1))
  ELSE s

\* ai_settings rows of the device: is_enabled, api_key, fallback_message,
\* reply_delay_seconds, and the filters with their column defaults:
\* ignore_groups true, excluded_contacts and only_when_contains NULL (<<>>)
AiRow(enabled, key, fallback, delay) ==
  [is_enabled |-> enabled, api_key |-> key, fallback_message |-> fallback,
   reply_delay_seconds |-> delay,
   ignore_groups |-> TRUE, excluded_contacts |-> <<>>, only_when_contains |-> <<>>]

\* lines 451-467: the group, excluded-contacts and keyword filters
PassesFilters(s, from, body) ==
  LET isGroup == Includes(from, <<"@", "g", ".", "u", "s">>)
      excluded == Split(s.excluded_contacts, ",")
      senderNumber == BeforeFirst(from, "@")
      keywords == Split(s.only_when_contains, ",")
      messageBody == ToLowerCase(body)
  IN /\ ~(isGroup /\ s.ignore_groups)
     /\ s.excluded_contacts # <<>>
          => ~\E i \in DOMAIN excluded : Includes(senderNumber, Trim(excluded[i]))
     /\ s.only_when_contains # <<>>
          => \E i \in DOMAIN keywords :
               Includes(messageBody, ToLowerCase(Trim(keywords[i])))

AiSettingsRows ==
  { AiRow(TRUE, "key", fb, delay) : fb \in {"", "fallback"}, delay \in {0, 1} }
    \cup { AiRow(FALSE, "key", fb, 0) : fb \in {"", "fallback"} }
    \cup { AiRow(TRUE, "", "fallback", 0) }

\* what callGeminiAPI / callOpenAIAPI can do: return the text of the first
\* candidate (which may be the empty string), throw on a non-ok response
\* (lines 617-620), throw 'No response from AI' on no candidate (624-626)
ProviderOutcomes ==
  { [error |-> "none", text |-> "completion"],
    [error |-> "none", text |-> ""],
    [error |-> "ApiError", text |-> ""],
    [error |-> "NoResponse", text |-> ""] }

\* the frame of one handleIncomingMessage run
IdleInbound ==
  [pc |-> "idle", body |-> <<>>, fromMe |-> FALSE, from |-> SenderId,
   matched |-> 0,            \* id of the rule whose keyword matched, 0: none
   autoReplied |-> FALSE,    \* what checkAutoReply returned
   settings |-> AiRow(FALSE, "", "", 0),
   aiResponse |-> "",
   provider |-> "none",      \* "none": not called, else "returned" or the error thrown
   raised |-> "none",        \* the error the catch of line 548 received
   turns |-> 0,              \* ai_conversations rows inserted by this run
   trimmed |-> FALSE,        \* the DELETE of line 518 has run
   usageError |-> "none",    \* the error checkAndUpdateUsage threw (swallowed)
   fallback |-> "none",      \* how the catch of line 548 ended
   out |-> <<>>]             \* client.sendMessage calls: kind, text, ok

SetIn(p, f) == inbound' = [inbound EXCEPT ![p] = f]

Sent(f, kind, text, ok) == Append(f.out, [kind |-> kind, text |-> text, ok |-> ok])

\* the 'message' event of a connected session (lines 256-262)
Receive(p, msg) ==
  /\ inbound[p].pc = "idle"
  /\ call[p].op = "idle"
  /\ IsConnected(ReplyDevice)
  /\ SetIn(p, [IdleInbound EXCEPT !.pc = "save", !.body = msg.body, !.fromMe = msg.fromMe,
                                  !.from = msg.from])
  /\ before' = daily_usage
  /\ UNCHANGED <<daily_usage, user_settings, userSettings, clients, call, started>>
  /\ UNCHANGED <<schedVars, auto_replies, ai_settings, ai_conversations>>
  /\ UNCHANGED now

\* lines 434-435: checkAIAutoReply returns at once for own or blank messages
EnterAI(f) ==
  IF f.fromMe \/ IsBlank(f.body) THEN [f EXCEPT !.pc = "done"]
  ELSE [f EXCEPT !.pc = "ai_settings"]

\* an AI path that runs whatever checkAutoReply returned
RunsAIAlways(f) == EnterAI(f)

\* line 333: if (!autoReplied) await this.checkAIAutoReply(...)
AfterAutoReply(f) == IF f.autoReplied THEN [f EXCEPT !.pc = "done"] ELSE EnterAI(f)

\* line 327: saveMessage, whose errors are logged and dropped; then line 391
SaveMessage(p) ==
  LET f == inbound[p] IN
  /\ f.pc = "save"
  /\ SetIn(p, IF f.fromMe THEN AfterAutoReply(f) ELSE [f EXCEPT !.pc = "rules"])
  /\ UNCHANGED <<daily_usage, user_settings, userSettings, clients, call, started, before>>
  /\ UNCHANGED <<schedVars, auto_replies, ai_settings, ai_conversations>>
  /\ UNCHANGED now

\* lines 394-429: the rules query and the loop up to the first match
CheckAutoReply(p) ==
  LET f == inbound[p]
      rows == ActiveRules(auto_replies)
      i == FirstMatch(rows, f.body)
  IN
  /\ f.pc = "rules"
  /\ \/ SetIn(p, IF i = 0 THEN AfterAutoReply(f)
                 ELSE IF HasClient(ReplyDevice)
                      THEN [f EXCEPT !.pc = "kw_send", !.matched = rows[i].id]
                      ELSE AfterAutoReply([f EXCEPT !.matched = rows[i].id,
                                                    !.autoReplied = TRUE]))
     \/ SetIn(p, AfterAutoReply(f))
  /\ UNCHANGED <<daily_usage, user_settings, userSettings, clients, call, started, before>>
  /\ UNCHANGED <<schedVars, auto_replies, ai_settings, ai_conversations>>
  /\ UNCHANGED now

\* the reply text of the rule with the given id
ReplyMessage(id) ==
  LET i == CHOOSE j \in DOMAIN auto_replies : auto_replies[j].id = id
  IN auto_replies[i].reply_message

\* line 420: client.sendMessage(msg.from, rule.reply_message); a rejection
\* reaches the catch of line 426, which returns false
KeywordSend(p) ==
  LET f == inbound[p] IN
  /\ f.pc = "kw_send"
  /\ \/ SetIn(p, AfterAutoReply([f EXCEPT !.autoReplied = TRUE,
                                          !.out = Sent(f, "keyword", ReplyMessage(f.matched), TRUE)]))
     \/ SetIn(p, AfterAutoReply([f EXCEPT !.out = Sent(f, "keyword", ReplyMessage(f.matched), FALSE)]))
  /\ UNCHANGED <<daily_usage, user_settings, userSettings, clients, call, started, before>>
  /\ UNCHANGED <<schedVars, auto_replies, ai_settings, ai_conversations>>
  /\ UNCHANGED now

\* the catch of line 548
Raise(f, error) == [f EXCEPT !.pc = "fb_select", !.raised = error]

\* lines 439-467: the settings row of the device and the filters
AiSettings(p) ==
  LET f == inbound[p] IN
  /\ f.pc = "ai_settings"
  /\ \/ IF ai_settings = {} THEN SetIn(p, [f EXCEPT !.pc = "done"])
        ELSE \E s \in ai_settings :
               SetIn(p, IF \/ ~s.is_enabled \/ s.api_key = ""
                           \/ ~PassesFilters(s, f.from, f.body)
                        THEN [f EXCEPT !.pc = "done", !.settings = s]
                        ELSE [f EXCEPT !.pc = "ai_history", !.settings = s])
     \/ SetIn(p, Raise(f, "StoreError"))
  /\ UNCHANGED <<daily_usage, user_settings, userSettings, clients, call, started, before>>
  /\ UNCHANGED <<schedVars, auto_replies, ai_settings, ai_conversations>>
  /\ UNCHANGED now

\* lines 470-477: the last 10 turns of the chat, passed to the provider
AiHistory(p) ==
  LET f == inbound[p] IN
  /\ f.pc = "ai_history"
  /\ \/ SetIn(p, [f EXCEPT !.pc = "ai_call"])
     \/ SetIn(p, Raise(f, "StoreError"))
  /\ UNCHANGED <<daily_usage, user_settings, userSettings, clients, call, started, before>>
  /\ UNCHANGED <<schedVars, auto_replies, ai_settings, ai_conversations>>
  /\ UNCHANGED now

\* lines 480-505: the provider call and `if (aiResponse)`
AiCall(p) ==
  LET f == inbound[p] IN
  /\ f.pc = "ai_call"
  /\ \E o \in ProviderOutcomes :
       SetIn(p, IF o.error # "none" THEN Raise([f EXCEPT !.provider = o.error], o.error)
                ELSE IF o.text = ""
                     THEN [f EXCEPT !.pc = "done", !.provider = "returned"]
                     ELSE [f EXCEPT !.pc = "ai_insert_user", !.provider = "returned",
                                    !.aiResponse = o.text])
  /\ UNCHANGED <<daily_usage, user_settings, userSettings, clients, call, started, before>>
  /\ UNCHANGED <<schedVars, auto_replies, ai_settings, ai_conversations>>
  /\ UNCHANGED now

\* created_at of a new row: later than every row of the chat
NextCreatedAt(rows) == IF rows = <<>> THEN 1 ELSE rows[Len(rows)].created_at + 1

\* INSERT INTO ai_conversations (device_id, chat_id, role, content): a row is
\* kept as its created_at; role and content are read by the provider call only
AppendTurn(table, chat) ==
  [table EXCEPT ![chat] = Append(@, [created_at |-> NextCreatedAt(@)])]

\* lines 507-510: the user turn
AiInsertUser(p) ==
  LET f == inbound[p] IN
  /\ f.pc = "ai_insert_user"
  /\ \/ /\ ai_conversations' = AppendTurn(ai_conversations, Sender)
        /\ SetIn(p, [f EXCEPT !.pc = "ai_insert_assistant", !.turns = @ + 1])
     \/ /\ UNCHANGED ai_conversations
        /\ SetIn(p, Raise(f, "StoreError"))
  /\ UNCHANGED <<daily_usage, user_settings, userSettings, clients, call, started, before>>
  /\ UNCHANGED <<schedVars, auto_replies, ai_settings>>
  /\ UNCHANGED now

\* lines 512-515: the assistant turn
AiInsertAssistant(p) ==
  LET f == inbound[p] IN
  /\ f.pc = "ai_insert_assistant"
  /\ \/ /\ ai_conversations' = AppendTurn(ai_conversations, Sender)
        /\ SetIn(p, [f EXCEPT !.pc = "ai_trim", !.turns = @ + 1])
     \/ /\ UNCHANGED ai_conversations
        /\ SetIn(p, Raise(f, "StoreError"))
  /\ UNCHANGED <<daily_usage, user_settings, userSettings, clients, call, started, before>>
  /\ UNCHANGED <<schedVars, auto_replies, ai_settings>>
  /\ UNCHANGED now

\* rows of one chat, newest first: ORDER BY created_at DESC
NewestFirst(rows) == [i \in DOMAIN rows |-> rows[Len(rows) + 1 - i]]

\* a subquery that keeps one row less
DoomedOffByOne(table, chat) ==
  LET r == NewestFirst(table[chat])
  IN {<<chat, r[i].created_at>> : i \in KeepTurns..Len(r)}

\* SELECT id FROM ai_conversations WHERE device_id = $1 AND chat_id = $2
\* ORDER BY created_at DESC OFFSET 50; a row is identified by chat and created_at
Doomed(table, chat) ==
  LET r == NewestFirst(table[chat])
  IN {<<chat, r[i].created_at>> : i \in (KeepTurns + 1)..Len(r)}

\* DELETE FROM ai_conversations WHERE id IN (...)
TrimConversations(table, chat) ==
  [c \in Chats |->
     SelectSeq(table[c], LAMBDA r : <<c, r.created_at>> \notin Doomed(table, chat))]

\* lines 534-535: the client is looked up when the reply is about to be sent
AfterDelay(f) ==
  IF HasClient(ReplyDevice) THEN [f EXCEPT !.pc = "ai_send"] ELSE [f EXCEPT !.pc = "done"]

\* lines 518-531: the cleanup, then the reply delay when one is configured
AiTrim(p) ==
  LET f == inbound[p] IN
  /\ f.pc = "ai_trim"
  /\ \/ /\ ai_conversations' = TrimConversations(ai_conversations, Sender)
        /\ SetIn(p, IF f.settings.reply_delay_seconds > 0
                    THEN [f EXCEPT !.pc = "ai_delay", !.trimmed = TRUE]
                    ELSE AfterDelay([f EXCEPT !.trimmed = TRUE]))
     \/ /\ UNCHANGED ai_conversations
        /\ SetIn(p, Raise(f, "StoreError"))
  /\ UNCHANGED <<daily_usage, user_settings, userSettings, clients, call, started, before>>
  /\ UNCHANGED <<schedVars, auto_replies, ai_settings>>
  /\ UNCHANGED now

\* line 530: the reply delay has passed
AiDelay(p) ==
  LET f == inbound[p] IN
  /\ f.pc = "ai_delay"
  /\ SetIn(p, AfterDelay(f))
  /\ UNCHANGED <<daily_usage, user_settings, userSettings, clients, call, started, before>>
  /\ UNCHANGED <<schedVars, auto_replies, ai_settings, ai_conversations>>
  /\ UNCHANGED now

\* line 540: checkAndUpdateUsage(userId, deviceId, 'auto_reply')
EnterUsage(d, type) ==
  [IdleFrame EXCEPT !.op = "checkAndUpdateUsage", !.pc = "cau_insert", !.deviceId = d,
                    !.messageType = type, !.clientAtStart = clients[d]]

\* line 536: client.sendMessage(msg.from, aiResponse); when it resolves the
\* usage update starts, when it rejects the catch of line 548 runs
AiSend(p) ==
  LET f == inbound[p] IN
  /\ f.pc = "ai_send"
  /\ \/ /\ SetIn(p, [f EXCEPT !.pc = "ai_usage", !.out = Sent(f, "ai", f.aiResponse, TRUE)])
        /\ Set(p, EnterUsage(ReplyDevice, "auto_reply"))
     \/ /\ SetIn(p, Raise([f EXCEPT !.out = Sent(f, "ai", f.aiResponse, FALSE)],
                          "TransportError"))
        /\ UNCHANGED call
  /\ UNCHANGED <<daily_usage, user_settings, userSettings, clients, started, before>>
  /\ UNCHANGED <<schedVars, auto_replies, ai_settings, ai_conversations>>
  /\ UNCHANGED now

\* lines 539-546: checkAndUpdateUsage has returned or thrown; its error is
\* logged and dropped
AiUsageReturn(p) ==
  LET f == inbound[p] IN
  /\ f.pc = "ai_usage"
  /\ call[p].op = "checkAndUpdateUsage" /\ call[p].pc = "done"
  /\ SetIn(p, [f EXCEPT !.pc = "done", !.usageError = call[p].error])
  /\ Set(p, IdleFrame)
  /\ UNCHANGED <<daily_usage, user_settings, userSettings, clients, started, before>>
  /\ UNCHANGED <<schedVars, auto_replies, ai_settings, ai_conversations>>
  /\ UNCHANGED now

\* a catch that sends the fallback without asking whether one is configured
FallbackAlways(rows, hasClient) ==
  IF hasClient THEN "send" ELSE "no_client"

\* lines 557-559: settingsResult.rows[0]?.fallback_message, then the client
FallbackDecision(rows, hasClient) ==
  IF rows = {} \/ \A s \in rows : s.fallback_message = "" THEN "not_configured"
  ELSE IF hasClient THEN "send" ELSE "no_client"

\* lines 552-565: the fallback lookup; its errors are logged and dropped
FbSelect(p) ==
  LET f == inbound[p]
      d == FallbackDecision(ai_settings, HasClient(ReplyDevice))
  IN
  /\ f.pc = "fb_select"
  /\ \/ SetIn(p, IF d = "send" THEN [f EXCEPT !.pc = "fb_send"]
                 ELSE [f EXCEPT !.pc = "done", !.fallback = d])
     \/ SetIn(p, [f EXCEPT !.pc = "done", !.fallback = "store_error"])
  /\ UNCHANGED <<daily_usage, user_settings, userSettings, clients, call, started, before>>
  /\ UNCHANGED <<schedVars, auto_replies, ai_settings, ai_conversations>>
  /\ UNCHANGED now

\* the configured fallback text
FallbackMessage(rows) ==
  IF rows = {} THEN "" ELSE (CHOOSE s \in rows : TRUE).fallback_message

\* line 560: client.sendMessage(msg.from, fallback_message)
FbSend(p) ==
  LET f == inbound[p] IN
  /\ f.pc = "fb_send"
  /\ \/ SetIn(p, [f EXCEPT !.pc = "done", !.fallback = "sent",
                           !.out = Sent(f, "fallback", FallbackMessage(ai_settings), TRUE)])
     \/ SetIn(p, [f EXCEPT !.pc = "done", !.fallback = "send_failed",
                           !.out = Sent(f, "fallback", FallbackMessage(ai_settings), FALSE)])
  /\ UNCHANGED <<daily_usage, user_settings, userSettings, clients, call, started, before>>
  /\ UNCHANGED <<schedVars, auto_replies, ai_settings, ai_conversations>>
  /\ UNCHANGED now

\* line 350: the message is emitted to the user; the handler is free again
ReplyReturn(p) ==
  /\ inbound[p].pc = "done"
  /\ SetIn(p, IdleInbound)
  /\ UNCHANGED <<daily_usage, user_settings, userSettings, clients, call, started, before>>
  /\ UNCHANGED <<schedVars, auto_replies, ai_settings, ai_conversations>>
  /\ UNCHANGED now

\* ----------------------------------------------------------- admin routes
\* POST /admin/users/:userId/reset-usage: DELETE FROM daily_usage WHERE
\* user_id = $1 AND date = CURRENT_DATE; a store error is answered with 500
ResetUsage(u) ==
  /\ \/ daily_usage' = [d \in Devices |->
                          IF d \in UserDevices(u) THEN ZeroRow ELSE daily_usage[d]]
     \/ UNCHANGED daily_usage
  /\ UNCHANGED <<user_settings, userSettings, clients, call, started, before>>
  /\ UNCHANGED <<schedVars, replyVars>>
  /\ UNCHANGED now

\* DELETE /:deviceId of the device's owner: disconnectDevice, then DELETE FROM
\* devices WHERE id = $1.  daily_usage, scheduled_messages, auto_replies,
\* ai_settings and ai_conversations reference devices(id) ON DELETE CASCADE
\* (migrate.js), so the rows of the device go with it.  Taken when no call on
\* the device is in flight.
DeleteDevice(d) ==
  /\ \A p \in Procs : /\ (call[p].op = "idle" \/ call[p].deviceId # d)
                       /\ d = ReplyDevice => inbound[p].pc = "idle"
                       /\ \A i \in DOMAIN batch[p].rows : MsgDevice(batch[p].rows[i]) # d
  /\ clients' = [clients EXCEPT ![d] = "absent"]
  /\ daily_usage' = [daily_usage EXCEPT ![d] = ZeroRow]
  /\ scheduled_messages' =
       [m \in MsgIds |-> IF MsgDevice(m) = d THEN NoMessage ELSE scheduled_messages[m]]
  /\ auto_replies' = (IF d = ReplyDevice THEN <<>> ELSE auto_replies)
  /\ ai_settings' = (IF d = ReplyDevice THEN {} ELSE ai_settings)
  /\ ai_conversations' =
       (IF d = ReplyDevice THEN [c \in Chats |-> <<>>] ELSE ai_conversations)
  /\ UNCHANGED <<user_settings, userSettings, call, started, before, batch,
                 lastCancel, inbound>>
  /\ UNCHANGED now

\* the settings update routes (routes/settings.js): PUT / with target_user_id,
\* PUT /admin/users/:userId and PUT /admin/bulk-update.  Each runs INSERT INTO
\* user_settings (user_id) ... ON CONFLICT DO NOTHING for its users, then one
\* UPDATE that sets the given fields; a store error is answered with 500.
\* None of them touches WhatsAppManager.userSettings.
UpdateSettings(us, r) ==
  \/ user_settings' = [u \in Users |-> IF u \in us THEN {r} ELSE user_settings[u]]
  \/ user_settings' = [u \in Users |->
                         IF u \in us /\ user_settings[u] = {} THEN {DefaultRow}
                         ELSE user_settings[u]]
  \/ UNCHANGED user_settings

\* PUT / (target_user_id) and PUT /admin/users/:userId
PutUserSettings(u, r) ==
  /\ UpdateSettings({u}, r)
  /\ UNCHANGED <<daily_usage, userSettings, clients, call, started, before>>
  /\ UNCHANGED <<schedVars, replyVars, now>>

\* PUT /admin/bulk-update with userIds
BulkUpdateSettings(us, r) ==
  /\ us # {}
  /\ UpdateSettings(us, r)
  /\ UNCHANGED <<daily_usage, userSettings, clients, call, started, before>>
  /\ UNCHANGED <<schedVars, replyVars, now>>

\* the instants at which something is observed, around the 5 minutes of the cache
Instants == {0, CacheTtl - 1, CacheTtl, 2 * CacheTtl}

\* time passes
Advance(t) ==
  /\ t \in Instants /\ t > now
  /\ now' = t
  /\ UNCHANGED <<daily_usage, user_settings, userSettings, clients, call, started, before>>
  /\ UNCHANGED <<schedVars, replyVars>>

\* ------------------------------------------------------- specifications
InitDispatch ==
  /\ daily_usage = [d \in Devices |-> ZeroRow]
  /\ user_settings \in [Users -> {{}} \cup {{r} : r \in UNION {SettingsRows(u) : u \in Users}}]
  /\ \A u \in Users : IF SettingsRows(u) = {} THEN user_settings[u] = {}
                       ELSE user_settings[u] # {} /\ user_settings[u] \subseteq SettingsRows(u)
  /\ userSettings = [u \in Users |-> {}]
  /\ now = 0
  /\ clients \in [Devices -> {"absent", "starting", "ready"}]
  /\ \A d \in Devices \ Flaky : clients[d] = "ready"
  /\ call = [p \in Procs |-> IdleFrame]
  /\ started = {}
  /\ before = daily_usage

\* no scheduled message, no batch running
InitScheduler ==
  /\ scheduled_messages = [m \in MsgIds |-> NoMessage]
  /\ batch = [p \in Procs |-> IdleBatch]
  /\ lastCancel = NoCancel

\* no rule, no AI settings, no conversation, no inbound message
InitReplies ==
  /\ auto_replies = <<>>
  /\ ai_settings = {}
  /\ ai_conversations = [c \in Chats |-> <<>>]
  /\ inbound = [p \in Procs |-> IdleInbound]

Init == InitDispatch /\ InitScheduler /\ InitReplies

Run(p) ==
  \/ CauInsert(p) \/ CauSelect(p) \/ CauSettings(p) \/ CauUpdate(p) \/ CauCatch(p)
  \/ SmSend(p)
  \/ SbSettings(p) \/ SbUsage(p) \/ SbSend(p) \/ SbIncr(p) \/ SbDelay(p)

Lifecycle ==
  \E d \in Flaky : InitializeDevice(d) \/ ClientReady(d) \/ ClientGone(d)

Start(serial) ==
  \E p \in Procs, d \in Devices :
    \/ \E options \in SendOptions : StartSendMessage(p, d, options, serial)
    \/ \E n \in 1..(IF serial THEN MaxRecipients ELSE MaxRaceRecipients) :
         StartSendBroadcast(p, d, n, serial)

\* calls made one at a time, sessions coming and going
NextSerial == Start(TRUE) \/ (\E p \in Procs : Run(p) \/ Return(p)) \/ Lifecycle

SerialSpec == Init /\ [][NextSerial]_vars

\* two request handlers of connected devices interleaving at every await,
\* rate limiting enabled; the frame of a finished call is kept
InitConnected ==
  /\ Init
  /\ \A d \in Devices : clients[d] = "ready"
  /\ \A u \in Users : \A r \in user_settings[u] : r.enable_rate_limiting

Next == Start(FALSE) \/ (\E p \in Procs : Run(p))

Spec == InitConnected /\ [][Next]_vars

\* the scheduler: two messages scheduled and due, two cron ticks, the
\* sendMessage calls of their batches
SchedInit ==
  /\ InitDispatch /\ InitReplies
  /\ scheduled_messages = [m \in MsgIds |-> IF m \in SchedMsgIds THEN NewMessage
                                            ELSE NoMessage]
  /\ batch = [p \in Procs |-> IdleBatch]
  /\ lastCancel = NoCancel
  /\ \A u \in Users : \A r \in user_settings[u] :
       r.enable_rate_limiting /\ r.max_broadcast_recipients = 1

SchedNext ==
  \/ \E p \in Procs : Tick(p) \/ BatchHead(p) \/ BatchAfterSend(p) \/ BatchCatch(p)
  \/ \E p \in Procs : \/ CauInsert(p) \/ CauSelect(p) \/ CauSettings(p)
                       \/ CauUpdate(p) \/ CauCatch(p) \/ SmSend(p)

SchedSpec == SchedInit /\ [][SchedNext]_vars

\* one cron tick and its batch, with a cancel request arriving at any moment
CancelNext ==
  \/ Tick("p1")
  \/ \E p \in Procs : BatchHead(p) \/ BatchAfterSend(p) \/ BatchCatch(p)
  \/ \E p \in Procs : \/ CauInsert(p) \/ CauSelect(p) \/ CauSettings(p)
                       \/ CauUpdate(p) \/ CauCatch(p) \/ SmSend(p)
  \/ \E m \in SchedMsgIds, d \in Devices : CancelScheduledMessage(m, d)
  \/ \E m \in SchedMsgIds, u \in Users : CancelRoute(m, u)

CancelSpec == SchedInit /\ [][CancelNext]_vars

\* one inbound message of device ReplyDevice handled from the 'message' event
\* to the end, the session of the device coming and going meanwhile; the
\* device has sent 0..MaxLimit messages today
OtherChatRows == <<[created_at |-> 1], [created_at |-> 2]>>

ReplyInit ==
  /\ InitScheduler
  /\ \E sent \in 0..MaxLimit :
       daily_usage = [d \in Devices |->
                        IF d = ReplyDevice
                        THEN [ZeroRow EXCEPT !.exists = TRUE, !.messages_sent = sent]
                        ELSE ZeroRow]
  /\ user_settings \in [Users -> {{}} \cup {{r} : r \in UNION {SettingsRows(u) : u \in Users}}]
  /\ \A u \in Users : IF SettingsRows(u) = {} THEN user_settings[u] = {}
                       ELSE user_settings[u] # {} /\ user_settings[u] \subseteq SettingsRows(u)
  /\ \A u \in Users : \A r \in user_settings[u] : r.max_broadcast_recipients = 1
  /\ userSettings = [u \in Users |-> {}]
  /\ now = 0
  /\ clients = [d \in Devices |-> "ready"]
  /\ call = [p \in Procs |-> IdleFrame]
  /\ started = {}
  /\ before = daily_usage
  /\ auto_replies \in RuleTables
  /\ ai_settings \in {{}} \cup {{r} : r \in AiSettingsRows}
  /\ ai_conversations = [c \in Chats |-> IF c = Sender THEN <<>> ELSE OtherChatRows]
  /\ inbound = [p \in Procs |-> IdleInbound]

Handle(p) ==
  \/ SaveMessage(p) \/ CheckAutoReply(p) \/ KeywordSend(p)
  \/ AiSettings(p) \/ AiHistory(p) \/ AiCall(p)
  \/ AiInsertUser(p) \/ AiInsertAssistant(p) \/ AiTrim(p) \/ AiDelay(p)
  \/ AiSend(p) \/ AiUsageReturn(p) \/ FbSelect(p) \/ FbSend(p)
  \/ CauInsert(p) \/ CauSelect(p) \/ CauSettings(p) \/ CauUpdate(p) \/ CauCatch(p)

ReplyNext ==
  \/ \E msg \in InboundMessages : Receive("p1", msg)
  \/ \E p \in Procs : Handle(p)
  \/ Lifecycle

ReplySpec == ReplyInit /\ [][ReplyNext]_vars

\* a long conversation: device ReplyDevice, connected, AI replies enabled,
\* answers one inbound message of Sender after the other until MaxTurns
\* conversation rows have been inserted
TrimInit ==
  /\ InitScheduler
  /\ daily_usage = [d \in Devices |-> ZeroRow]
  /\ user_settings = [u \in Users |-> {}]
  /\ userSettings = [u \in Users |-> {}]
  /\ now = 0
  /\ clients = [d \in Devices |-> "ready"]
  /\ call = [p \in Procs |-> IdleFrame]
  /\ started = {}
  /\ before = daily_usage
  /\ auto_replies = <<RuleHi, RuleHiT>>
  /\ ai_settings = {AiRow(TRUE, "key", "fallback", 0)}
  /\ ai_conversations = [c \in Chats |-> IF c = Sender THEN <<>> ELSE OtherChatRows]
  /\ inbound = [p \in Procs |-> IdleInbound]

\* the next message of the conversation, one that matches no keyword rule
ReceiveNextTurn(p) ==
  /\ NextCreatedAt(ai_conversations[Sender]) <= MaxTurns
  /\ Receive(p, [body |-> <<"n", "o">>, fromMe |-> FALSE, from |-> SenderId])

TrimNext ==
  \/ ReceiveNextTurn("p1")
  \/ \E p \in Procs :
       \/ SaveMessage(p) \/ CheckAutoReply(p)
       \/ AiSettings(p) \/ AiHistory(p) \/ AiCall(p)
       \/ AiInsertUser(p) \/ AiInsertAssistant(p) \/ AiTrim(p)
       \/ AiSend(p) \/ AiUsageReturn(p) \/ FbSelect(p) \/ FbSend(p)
       \/ CauInsert(p) \/ CauSelect(p) \/ CauSettings(p) \/ CauUpdate(p) \/ CauCatch(p)
       \/ ReplyReturn(p)

TrimSpec == TrimInit /\ [][TrimNext]_vars

\* every way the usage rows are written: handler p1 takes one request (a
\* direct send, a broadcast) or runs one scheduler batch on device 1, handler
\* p2 handles one inbound message of device 1; an admin resets usage and the
\* user deletes device 2, which has sent a message today, at any moment
UsageInit ==
  /\ daily_usage = [d \in Devices |->
                      IF d = 2 THEN [ZeroRow EXCEPT !.exists = TRUE, !.messages_sent = 1]
                      ELSE ZeroRow]
  /\ user_settings = [u \in Users |->
                        IF u = "u1"
                        THEN {[daily_message_limit |-> MaxLimit,
                               message_delay_seconds |-> DefaultMessageDelay,
                               broadcast_delay_seconds |-> UserBroadcastDelay,
                               auto_reply_delay_seconds |-> DefaultAutoReplyDelay,
                               max_broadcast_recipients |-> MaxCap,
                               enable_rate_limiting |-> TRUE]}
                        ELSE {}]
  /\ userSettings = [u \in Users |-> {}]
  /\ now = 0
  /\ clients = [d \in Devices |-> "ready"]
  /\ call = [p \in Procs |-> IdleFrame]
  /\ started = {}
  /\ before = daily_usage
  /\ scheduled_messages = [m \in MsgIds |-> IF m = 1 THEN NewMessage ELSE NoMessage]
  /\ batch = [p \in Procs |-> IdleBatch]
  /\ lastCancel = NoCancel
  /\ auto_replies = <<RuleHi, RuleHiT>>
  /\ ai_settings = {AiRow(TRUE, "key", "fallback", 1)}
  /\ ai_conversations = [c \in Chats |-> IF c = Sender THEN <<>> ELSE OtherChatRows]
  /\ inbound = [p \in Procs |-> IdleInbound]

UsageNext ==
  \/ \E options \in SendOptions : StartSendMessage("p1", 1, options, FALSE)
  \/ \E n \in 1..MaxRaceRecipients : StartSendBroadcast("p1", 1, n, FALSE)
  \/ Tick("p1")
  \/ \E p \in Procs : Run(p) \/ BatchHead(p) \/ BatchAfterSend(p) \/ BatchCatch(p)
  \/ \E body \in {<<"h", "i">>, <<"n", "o">>} :
       Receive("p2", [body |-> body, fromMe |-> FALSE, from |-> SenderId])
  \/ \E p \in Procs :
       \/ SaveMessage(p) \/ CheckAutoReply(p) \/ KeywordSend(p)
       \/ AiSettings(p) \/ AiHistory(p) \/ AiCall(p)
       \/ AiInsertUser(p) \/ AiInsertAssistant(p) \/ AiTrim(p) \/ AiDelay(p)
       \/ AiSend(p) \/ AiUsageReturn(p) \/ FbSelect(p) \/ FbSend(p)
  \/ \E u \in Users : ResetUsage(u)
  \/ DeleteDevice(2)

UsageSpec == UsageInit /\ [][UsageNext]_vars

\* the settings cache: two calls of u1 on device 1, one after the other, while
\* an admin updates u1's settings and time passes
UpdateRows ==
  {r \in SettingsRows("u1") : r.max_broadcast_recipients = 1}

SettingsInit ==
  /\ InitDispatch /\ InitScheduler /\ InitReplies
  /\ clients = [d \in Devices |-> "ready"]
  /\ \A u \in Users : user_settings[u] \subseteq UpdateRows

SettingsNext ==
  \/ \E p \in Procs :
       \/ StartSendMessage(p, 1, [skipRateLimit |-> FALSE, messageType |-> "message"], TRUE)
       \/ StartSendBroadcast(p, 1, MaxRecipients, TRUE)
  \/ \E p \in Procs : Run(p) \/ Return(p)
  \/ \E r \in UpdateRows : PutUserSettings("u1", r) \/ BulkUpdateSettings({"u1"}, r)
  \/ \E t \in Instants : Advance(t)

SettingsSpec == SettingsInit /\ [][SettingsNext]_vars

\* one batch over a full table: every message is scheduled, the last one is
\* not due at the start, and either one message or seven are cancelled
\* already, which leaves more than 10 or fewer than 10 due; device 1 is
\* connected, device 2 is not; time passes
CancelledSets == {{5}, 3..9}

LimitInit ==
  /\ InitReplies
  /\ daily_usage = [d \in Devices |-> ZeroRow]
  /\ user_settings = [u \in Users |-> {}]
  /\ userSettings = [u \in Users |-> {}]
  /\ now = 0
  /\ clients = [d \in Devices |-> IF d = 2 THEN "absent" ELSE "ready"]
  /\ call = [p \in Procs |-> IdleFrame]
  /\ started = {}
  /\ before = daily_usage
  /\ \E c \in CancelledSets :
       scheduled_messages = [m \in MsgIds |->
                               IF m \in c THEN [NewMessage EXCEPT !.status = "cancelled"]
                               ELSE NewMessage]
  /\ batch = [p \in Procs |-> IdleBatch]
  /\ lastCancel = NoCancel

LimitNext ==
  \/ Tick("p1")
  \/ \E p \in Procs : BatchHead(p) \/ BatchAfterSend(p) \/ BatchCatch(p)
  \/ \E p \in Procs : \/ CauInsert(p) \/ CauSelect(p) \/ CauSettings(p)
                       \/ CauUpdate(p) \/ CauCatch(p) \/ SmSend(p)
  \/ Advance(CacheTtl)

LimitSpec == LimitInit /\ [][LimitNext]_vars

\* the filters of the AI step: one inbound message of a contact, of a group
\* or of another contact, to a device whose ai_settings row, if it has one,
\* is switched off, has no key, or sets filters
FilterRows ==
  { [AiRow(TRUE, "key", "fallback", 1) EXCEPT !.ignore_groups = g,
                                              !.excluded_contacts = x,
                                              !.only_when_contains = k] :
      g \in BOOLEAN,
      x \in {<<>>, <<"9", ",", " ", "7">>},
      k \in {<<>>, <<"N", "O">>, <<"h", "i", ",", "y", "o">>} }
    \cup {AiRow(FALSE, "key", "fallback", 0), AiRow(TRUE, "", "fallback", 0)}

FilterMessages ==
  [body : {<<"n", "o">>, <<"h", "i">>, <<"Y", "O">>}, fromMe : {FALSE},
   from : {SenderId, GroupId(<<"6", "2">>), ContactId(<<"6", "7", "8">>)}]

FilterInit ==
  /\ InitScheduler
  /\ daily_usage = [d \in Devices |-> ZeroRow]
  /\ user_settings = [u \in Users |-> {}]
  /\ userSettings = [u \in Users |-> {}]
  /\ now = 0
  /\ clients = [d \in Devices |-> "ready"]
  /\ call = [p \in Procs |-> IdleFrame]
  /\ started = {}
  /\ before = daily_usage
  /\ auto_replies = <<RuleHi, RuleHiT>>
  /\ ai_settings \in {{}} \cup {{r} : r \in FilterRows}
  /\ ai_conversations = [c \in Chats |-> IF c = Sender THEN <<>> ELSE OtherChatRows]
  /\ inbound = [p \in Procs |-> IdleInbound]

FilterNext ==
  \/ \E msg \in FilterMessages : Receive("p1", msg)
  \/ \E p \in Procs : Handle(p)

FilterSpec == FilterInit /\ [][FilterNext]_vars

\* the running application and its scheduled messages.  The entry file
\* constructs the SchedulerService and leaves the call of start() in a
\* comment (unnamed/part_006 lines 52-53), so no cron callback is
\* registered and processScheduledMessages has no caller: the application
\* schedules messages, cancels them, and time passes.  The clock is the only
\* step that happens by itself; requests are up to the users.
LiveMsgIds == SchedMsgIds \cup {MaxMessages}

LiveInit ==
  /\ InitScheduler /\ InitReplies
  /\ daily_usage = [d \in Devices |-> ZeroRow]
  /\ user_settings = [u \in Users |-> {}]
  /\ userSettings = [u \in Users |-> {}]
  /\ now = 0
  /\ clients = [d \in Devices |-> "ready"]
  /\ call = [p \in Procs |-> IdleFrame]
  /\ started = {}
  /\ before = daily_usage

LiveNext ==
  \/ \E m \in LiveMsgIds : ScheduleMessage(m)
  \/ \E m \in LiveMsgIds, d \in Devices : CancelScheduledMessage(m, d)
  \/ \E m \in LiveMsgIds, u \in Users : CancelRoute(m, u)
  \/ \E t \in Instants : Advance(t)

LiveSpec ==
  /\ LiveInit
  /\ [][LiveNext]_vars
  /\ WF_vars(\E t \in Instants : Advance(t))

\* ================================================================ claims
\* what a user has configured: the user_settings row, or the column defaults
ConfiguredSettings(u) ==
  IF user_settings[u] = {} THEN DefaultRow ELSE CHOOSE r \in user_settings[u] : TRUE

\* messages_sent + broadcasts_sent of one device's row of today
Used(rows, d) == rows[d].messages_sent + rows[d].broadcasts_sent

\* the quota a user has used today, over all of the user's devices
QuotaUsed(rows, u) == IF u = "u1" THEN Used(rows, 1) + Used(rows, 2) ELSE Used(rows, 3)

\* the three counters of every device
CounterView(rows) ==
  [d \in Devices |-> <<rows[d].messages_sent, rows[d].broadcasts_sent,
                       rows[d].auto_replies_sent>>]

Owner(p) == DeviceOwner(call[p].deviceId)

\* C1: for a user with rate limiting enabled, messages_sent + broadcasts_sent
\* over all the user's devices never exceeds daily_message_limit, whatever the
\* interleaving of concurrent checkAndUpdateUsage calls (here: while no call
\* in progress has met a store failure).
C1_QuotaNeverExceeded ==
  (\A p \in Procs : call[p].op # "sendBroadcast" /\ ~call[p].storeFailed)
    => \A u \in Users :
         ConfiguredSettings(u).enable_rate_limiting
           => QuotaUsed(daily_usage, u) <= ConfiguredSettings(u).daily_message_limit

\* C2: while a sendBroadcast runs concurrently with another call of the same
\* user, messages_sent + broadcasts_sent of the user stays within
\* daily_message_limit.
C2_BroadcastKeepsQuota ==
  \A p \in Procs :
    (call[p].op = "sendBroadcast" /\ \A q \in Procs : ~call[q].storeFailed)
      => (ConfiguredSettings(Owner(p)).enable_rate_limiting
            => QuotaUsed(daily_usage, Owner(p))
                 <= ConfiguredSettings(Owner(p)).daily_message_limit)

\* C3 in full generality: calls one at a time, rate limiting enabled, usage at the
\* limit: every sendMessage ends with the daily-limit error, no transport
\* call and no counter changed.
C3_Original ==
  \A p \in Procs :
    (/\ call[p].op = "sendMessage" /\ call[p].pc = "done"
     /\ ConfiguredSettings(Owner(p)).enable_rate_limiting
     /\ QuotaUsed(before, Owner(p)) >= ConfiguredSettings(Owner(p)).daily_message_limit)
      => (/\ call[p].error = "DailyLimit"
          /\ call[p].sends = 0
          /\ CounterView(daily_usage) = CounterView(before))

\* C3 restricted: the same for a sendMessage on a device that has a client and
\* whose quota check met no store failure.
C3_DeniedAtLimit ==
  \A p \in Procs :
    (/\ call[p].op = "sendMessage" /\ call[p].pc = "done"
     /\ ConfiguredSettings(Owner(p)).enable_rate_limiting
     /\ QuotaUsed(before, Owner(p)) >= ConfiguredSettings(Owner(p)).daily_message_limit
     /\ call[p].clientAtStart # "absent"
     /\ ~call[p].storeFailed)
      => (/\ call[p].error = "DailyLimit"
          /\ call[p].sends = 0
          /\ CounterView(daily_usage) = CounterView(before))

\* C3: a sendMessage denied at the limit on a connected device
C3_Witness ==
  \E p \in Procs :
    /\ call[p].op = "sendMessage" /\ call[p].pc = "done"
    /\ ConfiguredSettings(Owner(p)).enable_rate_limiting
    /\ QuotaUsed(before, Owner(p)) = ConfiguredSettings(Owner(p)).daily_message_limit
    /\ call[p].clientAtStart = "ready" /\ ~call[p].storeFailed
    /\ call[p].error = "DailyLimit"

\* C4: an allowed checkAndUpdateUsage call that met no store failure returns
\* remaining = daily_message_limit - total - 1.
C4_RemainingIsLimitMinusTotalMinusOne ==
  \A p \in Procs :
    (call[p].op = "sendMessage" /\ call[p].allowed /\ ~call[p].storeFailed)
      => call[p].remaining = call[p].settings.daily_message_limit - call[p].total - 1

\* C5: the quota decision of checkAndUpdateUsage is taken on the sum of
\* messages_sent + broadcasts_sent over all devices of the user: a call that
\* read the usage and the settings is denied exactly when rate limiting is on
\* and that sum, auto replies and other users left out, has reached the limit.
C5_DecisionOnUserAggregate ==
  \A p \in Procs :
    (/\ call[p].op = "sendMessage" /\ call[p].pc = "done"
     /\ call[p].clientAtStart # "absent" /\ ~call[p].storeFailed)
      => ((call[p].error = "DailyLimit")
            <=> (/\ ConfiguredSettings(Owner(p)).enable_rate_limiting
                 /\ QuotaUsed(before, Owner(p))
                      >= ConfiguredSettings(Owner(p)).daily_message_limit))

\* C5: device 2 has sent nothing, device 1 of the same user has used the
\* quota up: a sendMessage on device 2 is denied
C5_Witness ==
  \E p \in Procs :
    /\ call[p].op = "sendMessage" /\ call[p].pc = "done"
    /\ call[p].deviceId = 2 /\ ~call[p].storeFailed
    /\ Used(before, 2) = 0
    /\ Used(before, 1) >= ConfiguredSettings("u1").daily_message_limit
    /\ call[p].error = "DailyLimit"

\* C6: checkAndUpdateUsage returns remaining = -1 only when a store operation
\* failed.
C6_UnknownRemainingOnlyOnStoreFailure ==
  \A p \in Procs :
    (call[p].op = "sendMessage" /\ call[p].allowed /\ call[p].remaining = -1)
      => call[p].storeFailed

\* C7: sendMessage on a device that isConnected reports as not connected fails
\* at once with 'Device not connected', with no transport send and no usage
\* counter changed.
C7_NotConnectedFailsAtOnce ==
  \A p \in Procs :
    (/\ call[p].op = "sendMessage" /\ call[p].pc = "done"
     /\ call[p].clientAtStart # "ready" /\ ~call[p].storeFailed)
      => (/\ call[p].error = "DeviceNotConnected"
          /\ call[p].sends = 0
          /\ CounterView(daily_usage) = CounterView(before))

\* C8: whatever the settings, rate limiting on or off, a sendBroadcast with
\* more recipients than max_broadcast_recipients fails with the
\* too-many-recipients error, sends nothing and changes no counter.
C8_CapAlwaysEnforced ==
  \A p \in Procs :
    (/\ call[p].op = "sendBroadcast" /\ call[p].pc # "sb_settings"
     /\ ~call[p].storeFailed
     /\ call[p].n > ConfiguredSettings(Owner(p)).max_broadcast_recipients)
      => (/\ call[p].pc = "done"
          /\ call[p].error = "TooManyRecipients"
          /\ call[p].sends = 0
          /\ CounterView(daily_usage) = CounterView(before))

\* the quota left to a user when the current serial call started
Remaining(u) == ConfiguredSettings(u).daily_message_limit - QuotaUsed(before, u)

PastPreflight(p) ==
  call[p].op = "sendBroadcast" /\ call[p].pc \notin {"sb_settings", "sb_usage"}

\* C9 in full generality: rate limiting enabled: more recipients than the remaining
\* quota: insufficient-quota error before any send, no counter changed; as many
\* recipients as the remaining quota: accepted.
C9_Original ==
  \A p \in Procs :
    (PastPreflight(p) /\ ConfiguredSettings(Owner(p)).enable_rate_limiting)
      => (/\ call[p].n > Remaining(Owner(p))
               => (/\ call[p].pc = "done"
                   /\ call[p].error = "InsufficientQuota"
                   /\ call[p].sends = 0
                   /\ CounterView(daily_usage) = CounterView(before))
          /\ call[p].n = Remaining(Owner(p))
               => call[p].error \notin {"InsufficientQuota", "TooManyRecipients"})

\* C9 restricted: the same for a broadcast of at most max_broadcast_recipients
\* recipients whose settings were loaded (from the cache or the store).
C9_QuotaPrecheck ==
  \A p \in Procs :
    (/\ PastPreflight(p)
     /\ ConfiguredSettings(Owner(p)).enable_rate_limiting
     /\ call[p].settings \in user_settings[Owner(p)]
     /\ call[p].n <= ConfiguredSettings(Owner(p)).max_broadcast_recipients)
      => (/\ call[p].n > Remaining(Owner(p))
               => (/\ call[p].pc = "done"
                   /\ call[p].error = "InsufficientQuota"
                   /\ call[p].sends = 0
                   /\ CounterView(daily_usage) = CounterView(before))
          /\ call[p].n = Remaining(Owner(p))
               => call[p].error \notin {"InsufficientQuota", "TooManyRecipients"})

\* C9: a broadcast within the cap, longer than a positive remaining quota,
\* is rejected
C9_Witness ==
  \E p \in Procs :
    /\ PastPreflight(p)
    /\ ConfiguredSettings(Owner(p)).enable_rate_limiting
    /\ call[p].settings \in user_settings[Owner(p)]
    /\ call[p].n <= ConfiguredSettings(Owner(p)).max_broadcast_recipients
    /\ call[p].n > Remaining(Owner(p))
    /\ Remaining(Owner(p)) > 0
    /\ call[p].error = "InsufficientQuota"

\* C10: a sendBroadcast over n recipients that reaches the transport for every
\* recipient sleeps exactly n - 1 times, whether the attempts succeed or fail.
C10_DelayBetweenAllAttempts ==
  \A p \in Procs :
    (/\ call[p].op = "sendBroadcast" /\ call[p].pc = "done"
     /\ call[p].error = "none" /\ ~call[p].storeFailed
     /\ call[p].sends = call[p].n)
      => call[p].delays = call[p].n - 1

\* C11: a sendBroadcast that passed its pre-flight checks returns exactly one
\* result per recipient.
C11_OneResultPerRecipient ==
  \A p \in Procs :
    (call[p].op = "sendBroadcast" /\ call[p].pc = "done" /\ call[p].error = "none")
      => Len(call[p].results) = call[p].n

\* a processScheduledMessages run that has started and not yet returned
Running(p) == batch[p].pc \notin {"idle", "done"}

\* C12: a scheduled message that is sent, failed or cancelled keeps its status
\* in every step, whatever the interleaving of batches and cancel requests.
C12_TerminalStatusIsFinal ==
  [][\A m \in MsgIds :
       scheduled_messages[m].status \in Terminal
         => scheduled_messages'[m].status = scheduled_messages[m].status]_vars

\* C13: over the scheduler's ticks every scheduled message is handed to the
\* transport at most once.
C13_HandedToTransportAtMostOnce ==
  \A m \in MsgIds : scheduled_messages[m].handed <= 1

\* C14: no two processScheduledMessages runs are in progress at the same time.
C14_BatchesNeverOverlap ==
  ~(Running("p1") /\ Running("p2"))

\* C15: a cancel request that the store served sets a pending row of the given
\* devices to cancelled and returns it; on any other row it changes nothing and
\* returns no row; no other row is changed.
C15_CancelOnlyWhilePending ==
  (lastCancel.kind # "none" /\ ~lastCancel.raised)
    => LET ok == lastCancel.before = "pending"
                   /\ MsgDevice(lastCancel.id) \in lastCancel.devices
       IN /\ lastCancel.returned <=> ok
          /\ lastCancel.after = (IF ok THEN "cancelled" ELSE lastCancel.before)
          /\ lastCancel.othersSame

\* C15: a cancel, by the owner, of a row already sent: nothing returned, the
\* row still sent
C15_Witness ==
  /\ lastCancel.kind = "route" /\ ~lastCancel.raised
  /\ MsgDevice(lastCancel.id) \in lastCancel.devices
  /\ lastCancel.before = "sent" /\ lastCancel.after = "sent"
  /\ ~lastCancel.returned

\* the active rules of the device whose keyword matches the body
MatchingRules(body) ==
  {auto_replies[i] : i \in {j \in DOMAIN auto_replies :
                               /\ auto_replies[j].is_active
                               /\ ShouldReply(auto_replies[j], body)}}

\* of the matching rules, the one created first
FirstCreated(body) ==
  CHOOSE r \in MatchingRules(body) : \A q \in MatchingRules(body) : r.id <= q.id

\* C16: when several active rules of the device match an inbound message and
\* a keyword reply is delivered, the reply is that of the rule created first,
\* it is the only message sent, and the AI provider is not called.
C16_FirstCreatedRuleReplies ==
  \A p \in Procs :
    LET f == inbound[p] IN
    (f.pc = "done" /\ f.autoReplied /\ f.out # <<>>
       /\ Cardinality(MatchingRules(f.body)) >= 2)
    => /\ f.out = <<[kind |-> "keyword", text |-> FirstCreated(f.body).reply_message,
                     ok |-> TRUE]>>
       /\ f.provider = "none"

\* a keyword reply was delivered by the run of handler p
KeywordDelivered(p) ==
  \E i \in DOMAIN inbound[p].out :
    inbound[p].out[i].kind = "keyword" /\ inbound[p].out[i].ok

\* C17: a keyword auto-reply is not metered: when the handling of an inbound
\* message has delivered a keyword reply, no usage counter and no usage row
\* has changed and no quota check was made, whatever the user's quota.
C17_KeywordReplyUnmetered ==
  \A p \in Procs :
    (inbound[p].pc = "done" /\ KeywordDelivered(p))
    => /\ daily_usage = before
       /\ call[p].op = "idle"
       /\ inbound[p].usageError = "none"

\* C17 witness: a keyword reply delivered for a user whose quota of today is
\* used up, rate limiting enabled
C17_Witness ==
  \E p \in Procs :
    /\ inbound[p].pc = "done" /\ KeywordDelivered(p)
    /\ ConfiguredSettings(DeviceOwner(ReplyDevice)).enable_rate_limiting
    /\ QuotaUsed(before, DeviceOwner(ReplyDevice))
         >= ConfiguredSettings(DeviceOwner(ReplyDevice)).daily_message_limit

\* the user's quota of today was used up when the handling started
QuotaExhausted ==
  LET s == ConfiguredSettings(DeviceOwner(ReplyDevice))
  IN s.enable_rate_limiting
       /\ QuotaUsed(before, DeviceOwner(ReplyDevice)) >= s.daily_message_limit

\* C18: an AI reply is sent through the quota-checked path as an auto_reply:
\* once the AI reply is delivered and its usage update has ended without a
\* storage failure, the user's quota was not used up and auto_replies_sent of
\* the device is exactly one more than before.
C18_AiReplyMetered ==
  \A p \in Procs :
    (inbound[p].pc = "ai_usage" /\ call[p].pc = "done" /\ ~call[p].storeFailed)
    => /\ ~QuotaExhausted
       /\ daily_usage[ReplyDevice].auto_replies_sent
            = before[ReplyDevice].auto_replies_sent + 1

\* the client.sendMessage calls of one kind made by a run
RECURSIVE CountKind(_, _)
CountKind(out, kind) ==
  IF out = <<>> THEN 0
  ELSE (IF Head(out).kind = kind THEN 1 ELSE 0) + CountKind(Tail(out), kind)

FallbackConfigured == FallbackMessage(ai_settings) # ""

LastCreatedAt(rows) == IF rows = <<>> THEN 0 ELSE rows[Len(rows)].created_at

RowKept(d) ==
  daily_usage[d].exists
    => /\ daily_usage'[d].exists
       /\ daily_usage'[d].messages_sent >= daily_usage[d].messages_sent
       /\ daily_usage'[d].broadcasts_sent >= daily_usage[d].broadcasts_sent
       /\ daily_usage'[d].auto_replies_sent >= daily_usage[d].auto_replies_sent

\* a step of the admin reset-usage route: today's rows of one user are removed
\* and nothing else changes
ResetStep ==
  /\ \E u \in Users :
       daily_usage' = [d \in Devices |->
                         IF d \in UserDevices(u) THEN ZeroRow ELSE daily_usage[d]]
  /\ UNCHANGED <<user_settings, userSettings, clients, call, started, before,
                 schedVars, replyVars, now>>

\* C21: in every step each usage row is kept and none of messages_sent,
\* broadcasts_sent and auto_replies_sent decreases, unless the step is the
\* admin reset-usage, the only operation that removes rows.
C21_CountersNeverDecrease ==
  [][(\A d \in Devices : RowKept(d)) \/ ResetStep]_vars

\* the call of p has just read its settings through getUserSettings, and the
\* store did not fail
ReadsSettings(p) ==
  /\ call[p].pc \in {"cau_settings", "sb_settings"}
  /\ call'[p].pc # call[p].pc
  /\ ~call'[p].storeFailed

\* the user_settings row of u as a read finds it (a missing row is created
\* with the column defaults)
StoredSettings(u) == IF user_settings[u] = {} THEN {DefaultRow} ELSE user_settings[u]

\* C22: the settings a quota or broadcast-cap decision reads through
\* getUserSettings are the values of the user's stored user_settings row, also
\* after a settings update route has changed that row.
C22_DecisionUsesUpdatedSettings ==
  [][\A p \in Procs :
       ReadsSettings(p)
         => call'[p].settings \in StoredSettings(DeviceOwner(call[p].deviceId))]_vars

\* the call of p has just run getUserSettings
CalledGetUserSettings(p) ==
  /\ call[p].pc \in {"cau_settings", "sb_settings"}
  /\ call'[p].pc # call[p].pc

\* the values the spec lists as built-in defaults
ListedDefaults ==
  [daily_message_limit |-> 200,
   message_delay_seconds |-> 3,
   broadcast_delay_seconds |-> 5,
   auto_reply_delay_seconds |-> 2,
   max_broadcast_recipients |-> 100,
   enable_rate_limiting |-> TRUE]

\* C23: a getUserSettings call whose load fails returns the listed defaults
\* and leaves the cache as it was; a call that finds an entry younger than 5
\* minutes returns it and leaves store and cache alone; a call that finds no
\* entry, or one of 5 minutes or more, and loads returns the stored row and
\* caches it with the time of the load.
C23_DefaultsOnFailureAndCacheTtl ==
  [][\A p \in Procs :
       CalledGetUserSettings(p) =>
         LET u == DeviceOwner(call[p].deviceId)
             young == {c \in userSettings[u] : now - c.timestamp < 300000}
         IN  IF young # {}
             THEN /\ call'[p].settings \in {c.settings : c \in young}
                  /\ ~call'[p].storeFailed
                  /\ UNCHANGED <<user_settings, userSettings>>
             ELSE IF call'[p].storeFailed
             THEN /\ call'[p].settings = ListedDefaults
                  /\ UNCHANGED <<user_settings, userSettings>>
             ELSE /\ call'[p].settings \in StoredSettings(u)
                  /\ user_settings'[u] = {call'[p].settings}
                  /\ userSettings'[u] =
                       {[settings |-> call'[p].settings, timestamp |-> now]}]_vars

\* C23 witness: with an entry of 5 minutes or more in the cache the load
\* failed; the call went on with the defaults, not with the entry, and the
\* cache still holds the old entry
C23_Witness ==
  \E p \in Procs :
    /\ call[p].pc = "cau_update" /\ call[p].storeFailed
    /\ call[p].settings = ListedDefaults
    /\ \E c \in userSettings[DeviceOwner(call[p].deviceId)] :
         now - c.timestamp >= CacheTtl /\ c.settings # ListedDefaults

\* the row the batch of p is at
BatchRow(p) == batch[p].rows[batch[p].k]

\* the batch of p goes on with the row after the one it is at
BatchContinues(p) ==
  batch'[p] = [batch[p] EXCEPT !.pc = "head", !.k = @ + 1]

\* the batch of p takes a step at a row whose device is not connected
AtDisconnectedRow(p) ==
  /\ batch[p].pc = "head" /\ batch[p].k <= Len(batch[p].rows)
  /\ clients[MsgDevice(BatchRow(p))] # "ready"
  /\ batch'[p] # batch[p]

\* the batch of p takes the error that sendMessage raised for its row
AtRaisedSend(p) ==
  /\ batch[p].pc = "sending"
  /\ call[p].pc = "done" /\ call[p].error # "none"
  /\ batch'[p] # batch[p]

\* the row m is set to failed with the message msg, nothing was sent or
\* counted by the step, and the batch goes on
FailedWith(p, m, msg) ==
  /\ scheduled_messages'[m].status = "failed"
  /\ scheduled_messages'[m].error_message = msg
  /\ BatchContinues(p)

\* a row becomes sent only in the step that takes the result of a sendMessage
\* for it whose transport send succeeded
SentAfterSuccess ==
  \A m \in MsgIds :
    (scheduled_messages[m].status # "sent" /\ scheduled_messages'[m].status = "sent")
      => \E p \in Procs :
           /\ batch[p].pc = "sending" /\ BatchRow(p) = m
           /\ call[p].pc = "done" /\ call[p].error = "none"
           /\ call[p].results = <<"ok">> /\ call[p].sends = 1

Selected(s) ==
  /\ Len(s) <= 10
  /\ \A i \in DOMAIN s :
       /\ scheduled_messages[s[i]].status = "pending"
       /\ ScheduledAt(s[i]) <= now
  /\ \A i, j \in DOMAIN s : i < j => ScheduledAt(s[i]) <= ScheduledAt(s[j])

\* C25: the rows a batch selects are at most 10, pending and due at that
\* moment and in ascending order of scheduled_at; the batch goes through
\* them in that order; a step changes a row only when a batch is at it; and
\* no message is handed to the transport before its scheduled_at.
C25_OnlyDuePendingRows ==
  [][/\ \A p \in Procs :
          /\ (batch[p].pc = "idle" /\ batch'[p].pc # "idle") => Selected(batch'[p].rows)
          /\ batch[p].pc # "idle"
               => /\ batch'[p].rows = batch[p].rows
                  /\ batch'[p].k \in {batch[p].k, batch[p].k + 1}
     /\ \A m \in MsgIds :
          scheduled_messages'[m] # scheduled_messages[m]
            => \E p \in Procs :
                 /\ batch[p].pc \in {"head", "sending", "catch"}
                 /\ batch[p].k <= Len(batch[p].rows) /\ BatchRow(p) = m
     /\ \A m \in MsgIds :
          scheduled_messages'[m].handed > 0 => ScheduledAt(m) <= now']_vars

\* C25 witness: a batch has gone through 10 rows, one of them was sent; a
\* cancelled row, a pending due row beyond the 10 and a pending row that was
\* not due when the batch ran are as they were
C25_Witness ==
  /\ batch["p1"].pc = "done" /\ Len(batch["p1"].rows) = BatchLimit
  /\ batch["p1"].k > BatchLimit
  /\ scheduled_messages[1].status = "sent" /\ scheduled_messages[1].handed = 1
  /\ \E m \in MsgIds : scheduled_messages[m] = [NewMessage EXCEPT !.status = "cancelled"]
  /\ \E m \in MsgIds :
       /\ scheduled_messages[m] = NewMessage /\ ScheduledAt(m) <= 0
       /\ \A i \in DOMAIN batch["p1"].rows : batch["p1"].rows[i] # m
  /\ scheduled_messages[MaxMessages] = NewMessage /\ now >= ScheduledAt(MaxMessages)

\* the cases in which the AI step is to be skipped: no row, switched off, no
\* key, a group while ignore_groups is set, an excluded contact, or none of
\* the keywords of only_when_contains in the body
SkipCase(f) ==
  \/ ai_settings = {}
  \/ \E s \in ai_settings :
       \/ ~s.is_enabled \/ s.api_key = ""
       \/ s.ignore_groups /\ EndsWith(f.from, <<"@", "g", ".", "u", "s">>)
       \/ \E i \in DOMAIN Split(s.excluded_contacts, ",") :
            LET e == Trim(Split(s.excluded_contacts, ",")[i])
            IN e # <<>> /\ e = BeforeFirst(f.from, "@")
       \/ /\ s.only_when_contains # <<>>
          /\ \A i \in DOMAIN Split(s.only_when_contains, ",") :
               ~Includes(ToLowerCase(f.body),
                         ToLowerCase(Trim(Split(s.only_when_contains, ",")[i])))

\* nothing of the AI step has happened in the run with frame f
AiStepSkipped(f) ==
  /\ f.provider = "none" /\ f.turns = 0
  /\ \A i \in DOMAIN f.out : f.out[i].kind = "keyword"
  /\ daily_usage = before

\* C26: a message received in one of the skip cases causes no provider
\* call, no conversation turn, no AI or fallback send and no counter change.
C26_AiStepSkipped ==
  \A p \in Procs :
    (inbound[p].pc # "idle" /\ SkipCase(inbound[p])) => AiStepSkipped(inbound[p])

\* the client.sendMessage calls of a run that the transport accepted
RECURSIVE CountDelivered(_)
CountDelivered(out) ==
  IF out = <<>> THEN 0
  ELSE (IF Head(out).ok THEN 1 ELSE 0) + CountDelivered(Tail(out))

\* the usage rows are as they were when the message arrived, or
\* auto_replies_sent of the device is one more
AtMostOneIncrement ==
  \/ daily_usage = before
  \/ daily_usage = [before EXCEPT ![ReplyDevice].auto_replies_sent = @ + 1]

\* turns, counters and own or blank messages, as C27 states them
TurnsAndCounters(p) ==
  LET f == inbound[p] IN
  /\ f.turns <= 2
  /\ CountKind(f.out, "ai") > 0 => f.turns = 2
  /\ AtMostOneIncrement
  /\ daily_usage # before => \E i \in DOMAIN f.out : f.out[i].kind = "ai" /\ f.out[i].ok
  /\ (f.fromMe \/ f.body \in {<<>>, <<" ">>})
       => f.out = <<>> /\ f.turns = 0 /\ f.provider = "none" /\ daily_usage = before

C29_KeywordMatchStopsAI ==
  \A p \in Procs : inbound[p].matched # 0 => inbound[p].provider = "none"

\* C30: after a completion was returned by the provider, no fallback message
\* is sent, whatever fails while the turns are stored and the reply is sent;
\* a run that stored AI turns never sends the fallback.
C30_NoFallbackAfterCompletion ==
  \A p \in Procs :
    LET f == inbound[p] IN
    (f.provider = "returned" \/ f.turns > 0) => CountKind(f.out, "fallback") = 0

\* C28: every scheduled message that is pending and due eventually reaches
\* a terminal state.
C28_DueMessagesEventuallyTerminal ==
  \A m \in MsgIds :
    (scheduled_messages[m].status = "pending" /\ ScheduledAt(m) <= now)
      ~> (scheduled_messages[m].status \in Terminal)
====
